---------------------------- MODULE Spec2Model ----------------------------
(***************************************************************************)
(* A model of CSpiceBridge.c: one Stream, its mutex, the channel-discovery *)
(* listener, the input translator, the clipboard coordinator, the          *)
(* background worker and open/close, as the threads that run them.         *)
(*                                                                         *)
(* Threads: "app" opens and closes the Stream; the callers c1, c2 run the  *)
(* public send/set operations; d1, d2 are executions of signal handlers in *)
(* the external library's dispatch context; cb1 is the frame of a public   *)
(* call made from inside the clipboard callback running on d1; the worker  *)
(* has its own position wpc.  A handler that takes the mutex is modelled in steps:     *)
(* its entry (null checks), pthread_mutex_lock, and its critical section   *)
(* up to and including pthread_mutex_unlock.                               *)
(*                                                                         *)
(* Doubles (x, y, scroll deltas) are fixed-point numbers in halves:        *)
(* the integer v stands for v / 2.                                         *)
(*                                                                         *)
(* The model is of the build with __APPLE__ set, the one that has the      *)
(* session and the channels; without it the send operations are stubs.     *)
(***************************************************************************)
EXTENDS Integers, Sequences, FiniteSets, TLC

\* ----------------------------------------------------------------- bounds

MaxScroll == 2        \* largest |scroll delta| drawn, in whole units
MaxFrames == 2        \* frame notifications made in one run
MaxAnnounce == 2      \* channel-new signals delivered in one run
MaxDeliver == 3       \* guest clipboard-data signals delivered in one run
MaxTypes == 3         \* content types advertised by one guest grab
MaxFiles == 3         \* files listed in one drag event
MaxTransfers == 1     \* file copies in flight at once
MaxBuffer == 4        \* bytes in the caller's error buffer
MaxMessage == 4       \* characters in an error message
MaxWire == 3          \* library calls logged before the last call of a run starts

\* ------------------------------------------------------ program constants

WINRUN_MOUSE_EVENT_MOVE == 0
WINRUN_MOUSE_EVENT_PRESS == 1
WINRUN_MOUSE_EVENT_RELEASE == 2
WINRUN_MOUSE_EVENT_SCROLL == 3

WINRUN_MOUSE_BUTTON_LEFT == 1
WINRUN_MOUSE_BUTTON_RIGHT == 2
WINRUN_MOUSE_BUTTON_MIDDLE == 4
WINRUN_MOUSE_BUTTON_EXTRA1 == 5
WINRUN_MOUSE_BUTTON_EXTRA2 == 6

\* spice-protocol's button numbers and mask bits, as the switch tables use them
SPICE_MOUSE_BUTTON_LEFT == 1
SPICE_MOUSE_BUTTON_MIDDLE == 2
SPICE_MOUSE_BUTTON_RIGHT == 3
SPICE_MOUSE_BUTTON_UP == 4
SPICE_MOUSE_BUTTON_DOWN == 5

SPICE_MOUSE_BUTTON_MASK_LEFT == 1
SPICE_MOUSE_BUTTON_MASK_MIDDLE == 2
SPICE_MOUSE_BUTTON_MASK_RIGHT == 4
SPICE_MOUSE_BUTTON_MASK_UP == 8
SPICE_MOUSE_BUTTON_MASK_DOWN == 16

WINRUN_KEY_EVENT_DOWN == 0
WINRUN_KEY_EVENT_UP == 1
ExtendedKeyBit == 256

WINRUN_CLIPBOARD_FORMAT_TEXT == 0
WINRUN_CLIPBOARD_FORMAT_RTF == 1
WINRUN_CLIPBOARD_FORMAT_HTML == 2
WINRUN_CLIPBOARD_FORMAT_PNG == 3
WINRUN_CLIPBOARD_FORMAT_TIFF == 4
WINRUN_CLIPBOARD_FORMAT_FILE_URL == 5

VD_AGENT_CLIPBOARD_UTF8_TEXT == 1
VD_AGENT_CLIPBOARD_IMAGE_PNG == 2
VD_AGENT_CLIPBOARD_IMAGE_BMP == 3

WINRUN_DRAG_EVENT_ENTER == 0
WINRUN_DRAG_EVENT_MOVE == 1
WINRUN_DRAG_EVENT_LEAVE == 2
WINRUN_DRAG_EVENT_DROP == 3

\* the worker's metadata (scale_factor 1.0 is the integer 1)
MetaWidth == 800
MetaHeight == 600
MetaScale == 1

\* ------------------------------------------------------------- the threads

App == "app"
Callers == {"c1", "c2"}
Dispatch == {"d1", "d2"}
\* the frame of a public call the application's clipboard callback makes on
\* the dispatch thread d1 that is executing it
CallbackFrame == "cb1"
Threads == {App} \cup Callers \cup Dispatch \cup {CallbackFrame}
Nobody == "nobody"

\* Channel objects of the external library, by kind (5 is of another kind,
\* e.g. a display channel).
InputsChannels == {1, 2}
MainChannels == {3, 4}
OtherChannels == {5}
Channels == InputsChannels \cup MainChannels \cup OtherChannels
SPICE_IS_INPUTS_CHANNEL(ch) == ch \in InputsChannels
SPICE_IS_MAIN_CHANNEL(ch) == ch \in MainChannels

ClipboardSignals == {"grab", "data", "request", "release"}

\* ---------------------------------------------------------- pure functions

\* C's bitwise operators on non-negative ints
RECURSIVE BitAnd(_, _)
BitAnd(a, b) ==
    IF a = 0 \/ b = 0 THEN 0
    ELSE (a % 2) * (b % 2) + 2 * BitAnd(a \div 2, b \div 2)

BitOrAdds(a, b) == a + b

BitOr(a, b) == a + b - BitAnd(a, b)

BitAndNotKeeps(a, b) == a

\* a & ~b
BitAndNot(a, b) == a - BitAnd(a, b)

FloorToInt(v) == v \div 2

\* (int)d for a double d held in halves: truncation toward zero
CastToInt(v) == IF v >= 0 THEN v \div 2 ELSE -((-v) \div 2)

ButtonAlwaysLeft(button) == SPICE_MOUSE_BUTTON_LEFT

winrun_button_to_spice(button) ==
    CASE button = WINRUN_MOUSE_BUTTON_LEFT -> SPICE_MOUSE_BUTTON_LEFT
      [] button = WINRUN_MOUSE_BUTTON_RIGHT -> SPICE_MOUSE_BUTTON_RIGHT
      [] button = WINRUN_MOUSE_BUTTON_MIDDLE -> SPICE_MOUSE_BUTTON_MIDDLE
      [] button = WINRUN_MOUSE_BUTTON_EXTRA1 -> SPICE_MOUSE_BUTTON_UP
      [] button = WINRUN_MOUSE_BUTTON_EXTRA2 -> SPICE_MOUSE_BUTTON_DOWN
      [] OTHER -> 0

MaskCollapsed(button) == IF button = 0 THEN 0 ELSE SPICE_MOUSE_BUTTON_MASK_LEFT

winrun_button_to_mask(button) ==
    CASE button = WINRUN_MOUSE_BUTTON_LEFT -> SPICE_MOUSE_BUTTON_MASK_LEFT
      [] button = WINRUN_MOUSE_BUTTON_RIGHT -> SPICE_MOUSE_BUTTON_MASK_RIGHT
      [] button = WINRUN_MOUSE_BUTTON_MIDDLE -> SPICE_MOUSE_BUTTON_MASK_MIDDLE
      [] button = WINRUN_MOUSE_BUTTON_EXTRA1 -> SPICE_MOUSE_BUTTON_MASK_UP
      [] button = WINRUN_MOUSE_BUTTON_EXTRA2 -> SPICE_MOUSE_BUTTON_MASK_DOWN
      [] OTHER -> 0

FormatAsText(format) == VD_AGENT_CLIPBOARD_UTF8_TEXT

winrun_format_to_spice(format) ==
    CASE format = WINRUN_CLIPBOARD_FORMAT_TEXT -> VD_AGENT_CLIPBOARD_UTF8_TEXT
      [] format = WINRUN_CLIPBOARD_FORMAT_RTF -> VD_AGENT_CLIPBOARD_UTF8_TEXT
      [] format = WINRUN_CLIPBOARD_FORMAT_HTML -> VD_AGENT_CLIPBOARD_UTF8_TEXT
      [] format = WINRUN_CLIPBOARD_FORMAT_PNG -> VD_AGENT_CLIPBOARD_IMAGE_PNG
      [] format = WINRUN_CLIPBOARD_FORMAT_TIFF -> VD_AGENT_CLIPBOARD_IMAGE_BMP
      [] format = WINRUN_CLIPBOARD_FORMAT_FILE_URL -> VD_AGENT_CLIPBOARD_UTF8_TEXT
      [] OTHER -> VD_AGENT_CLIPBOARD_UTF8_TEXT

spice_to_winrun_format(spice_type) ==
    CASE spice_type = VD_AGENT_CLIPBOARD_UTF8_TEXT -> WINRUN_CLIPBOARD_FORMAT_TEXT
      [] spice_type = VD_AGENT_CLIPBOARD_IMAGE_PNG -> WINRUN_CLIPBOARD_FORMAT_PNG
      [] spice_type = VD_AGENT_CLIPBOARD_IMAGE_BMP -> WINRUN_CLIPBOARD_FORMAT_PNG
      [] OTHER -> WINRUN_CLIPBOARD_FORMAT_TEXT

\* n copies of the sequence s, one after the other
RECURSIVE Repeat(_, _)
Repeat(s, n) == IF n <= 0 THEN <<>> ELSE s \o Repeat(s, n - 1)

\* ------------------------------------------------------- protocol operations
\* what the external library's per-channel send primitives are called with

Position(ch, x, y, mask) ==
    [op |-> "position", ch |-> ch, x |-> x, y |-> y, display |-> 0, mask |-> mask]

ButtonPress(ch, button, mask) ==
    [op |-> "button_press", ch |-> ch, button |-> button, mask |-> mask]

ButtonRelease(ch, button, mask) ==
    [op |-> "button_release", ch |-> ch, button |-> button, mask |-> mask]

KeyPress(ch, scancode) == [op |-> "key_press", ch |-> ch, scancode |-> scancode]

KeyRelease(ch, scancode) == [op |-> "key_release", ch |-> ch, scancode |-> scancode]


\* ------------------------------------------------------------------- state

VARIABLES
    mem,          \* the Stream allocation: "none", "live" or "freed"
    stream,       \* the fields of winrun_spice_stream
    send_mutex,   \* [st: "uninit" | "init" | "destroyed", owner: a thread or Nobody]
    connecting,   \* the session has started connecting (channels may be announced)
    handlers,     \* the external library's connected signal handlers [obj, sig, id]
    next_id,      \* the id g_signal_connect returns next
    refs,         \* counted references the Stream holds, per external object
    announced,    \* channel-new signals delivered so far
    pc,           \* each thread's position
    arg,          \* each thread's call or signal arguments
    snap,         \* on_clipboard_data's locals cb, cb_user_data, seq, per thread
    wpc,          \* the worker thread's position
    notes,        \* the notifications the worker's callbacks received, in order
    nframes,      \* frame notifications so far
    delivered,    \* the guest-data arrivals that reached the callback call, in order
    ndata,        \* guest clipboard-data signals delivered so far
    lastCall,     \* the public call completed last: arguments, result, emissions
    errmsg,       \* the message open wrote to the error buffer
    transfers,    \* the Drag Transfer Contexts of the file copies in flight
    gfiles,       \* the live file handles (GFile objects) and transfer contexts
    wire,         \* the operations issued by the stepwise send operations, in order
    held,         \* buttons whose latest successful PRESS/RELEASE event was a PRESS
    pr            \* the PRESS .. RELEASE pair in progress, with the mask before it

vars == <<mem, stream, send_mutex, connecting, handlers, next_id, refs, announced,
          pc, arg, snap, wpc, notes, nframes, delivered, ndata, lastCall, errmsg,
          transfers, gfiles, wire, held, pr>>

\* the Stream's fields other than its mutex
extern == <<connecting, handlers, next_id, refs>>
worker == <<wpc, notes, nframes>>
mouseHist == <<held, pr>>
xfer == <<transfers, gfiles, wire>>
misc == <<errmsg, transfers, gfiles, wire>>

NoArg == [sig |-> "none"]
NoSnap == [cb |-> 0, cb_user_data |-> 0, seq |-> 0]
NoEvent == [event_type |-> -1]
NoFiles == [handles |-> {}, contexts |-> {}]
NoPr == [st |-> "none", button |-> 0, m |-> 0, pure |-> TRUE]
NoCall == [op |-> "none", stream_null |-> FALSE, arg_null |-> FALSE,
           ev |-> NoEvent, channel |-> 0, ret |-> "void", emitted |-> <<>>]

\* the record of a completed call
Call(op, sn, an, ev, ch, ret, emitted) ==
    [op |-> op, stream_null |-> sn, arg_null |-> an,
     ev |-> ev, channel |-> ch, ret |-> ret, emitted |-> emitted]

\* winrun_spice_stream_create's field values
NewStream(window_id, frame_cb, metadata_cb, closed_cb) ==
    [worker_running |-> TRUE,
     window_id |-> window_id,
     frame_cb |-> frame_cb,
     metadata_cb |-> metadata_cb,
     closed_cb |-> closed_cb,
     clipboard_cb |-> 0,
     clipboard_user_data |-> 0,
     button_state |-> 0,
     clipboard_sequence |-> 0,
     session |-> FALSE,
     inputs_channel |-> 0,
     main_channel |-> 0,
     channel_new_handler_id |-> 0,
     clipboard_grab_handler_id |-> 0,
     clipboard_data_handler_id |-> 0,
     clipboard_request_handler_id |-> 0,
     clipboard_release_handler_id |-> 0]

\* ------------------------------------------------------------ the mutex

Goto(t, to) == pc' = [pc EXCEPT ![t] = to]

LockWithoutWaiting(t, from, to) ==
    /\ pc[t] = from
    /\ mem = "live"
    /\ send_mutex.st = "init"
    /\ send_mutex' = [send_mutex EXCEPT !.owner = t]
    /\ Goto(t, to)

\* pthread_mutex_lock on the initialised mutex of a live Stream: blocks until free
pthread_mutex_lock(t, from, to) ==
    /\ pc[t] = from
    /\ mem = "live"
    /\ send_mutex.st = "init"
    /\ send_mutex.owner = Nobody
    /\ send_mutex' = [send_mutex EXCEPT !.owner = t]
    /\ Goto(t, to)

KeepsLocked(t) == send_mutex

\* pthread_mutex_unlock by t
Unlocked(t) ==
    IF send_mutex.owner = t THEN [send_mutex EXCEPT !.owner = Nobody] ELSE send_mutex
\* -------------------------------------------------- the channel listener

SessionObj == 0

Ref(r, o) == [r EXCEPT ![o] = @ + 1]

Unref(r, o) == [r EXCEPT ![o] = @ - 1]

\* g_signal_handler_disconnect(obj, id)
Disconnect(hs, obj, id) == {h \in hs : ~(h.obj = obj /\ h.id = id)}

\* the Stream's four clipboard handler ids
ClipboardIds(s) ==
    {s.clipboard_grab_handler_id, s.clipboard_data_handler_id,
     s.clipboard_request_handler_id, s.clipboard_release_handler_id} \ {0}

\* The "channel-new" signal fires while the listener is connected to the
\* session: on_channel_new is invoked on a dispatch thread.  A channel that is
\* neither an inputs nor a main channel makes it return at once.
SigChannelNew(d, ch) ==
    /\ pc[d] = "idle"
    /\ connecting
    /\ announced < MaxAnnounce
    /\ \E h \in handlers : h.obj = SessionObj /\ h.sig = "channel-new"
    /\ announced' = announced + 1
    /\ IF SPICE_IS_INPUTS_CHANNEL(ch) \/ SPICE_IS_MAIN_CHANNEL(ch)
       THEN /\ Goto(d, "chn_lock")
            /\ arg' = [arg EXCEPT ![d] = [sig |-> "channel-new", channel |-> ch]]
       ELSE UNCHANGED <<pc, arg>>
    /\ UNCHANGED <<mem, stream, send_mutex, connecting, handlers, next_id, refs,
                   snap, worker, delivered, ndata, lastCall, misc, mouseHist>>

ListenerNeverLocks(d) ==
    /\ pc[d] = "chn_lock"
    /\ Goto(d, "chn_cs")
    /\ UNCHANGED <<mem, stream, send_mutex, extern, announced, arg, snap, worker,
                   delivered, ndata, lastCall, misc, mouseHist>>

on_channel_new_lock(d) ==
    /\ pthread_mutex_lock(d, "chn_lock", "chn_cs")
    /\ UNCHANGED <<mem, stream, extern, announced, arg, snap, worker, delivered,
                   ndata, lastCall, misc, mouseHist>>

\* the inputs branch of on_channel_new, under the mutex
BindInputs(d, ch) ==
    /\ SPICE_IS_INPUTS_CHANNEL(ch)
    /\ refs' = Ref(IF stream.inputs_channel # 0
                   THEN Unref(refs, stream.inputs_channel) ELSE refs, ch)
    /\ stream' = [stream EXCEPT !.inputs_channel = ch]
    /\ UNCHANGED <<handlers, next_id>>

\* the main branch of on_channel_new, under the mutex
BindMain(d, ch) ==
    /\ SPICE_IS_MAIN_CHANNEL(ch)
    /\ LET old == stream.main_channel
           kept == IF old # 0
                   THEN {h \in handlers :
                           ~(h.obj = old /\ h.id \in ClipboardIds(stream))}
                   ELSE handlers
       IN /\ refs' = Ref(IF old # 0 THEN Unref(refs, old) ELSE refs, ch)
          /\ handlers' = kept \cup
                 {[obj |-> ch, sig |-> "grab", id |-> next_id],
                  [obj |-> ch, sig |-> "data", id |-> next_id + 1],
                  [obj |-> ch, sig |-> "request", id |-> next_id + 2],
                  [obj |-> ch, sig |-> "release", id |-> next_id + 3]}
          /\ next_id' = next_id + 4
          /\ stream' = [stream EXCEPT !.main_channel = ch,
                                      !.clipboard_grab_handler_id = next_id,
                                      !.clipboard_data_handler_id = next_id + 1,
                                      !.clipboard_request_handler_id = next_id + 2,
                                      !.clipboard_release_handler_id = next_id + 3]

on_channel_new(d) ==
    /\ pc[d] = "chn_cs"
    /\ \/ BindInputs(d, arg[d].channel)
       \/ BindMain(d, arg[d].channel)
    /\ send_mutex' = Unlocked(d)
    /\ Goto(d, "idle")
    /\ arg' = [arg EXCEPT ![d] = NoArg]
    /\ UNCHANGED <<mem, connecting, announced, snap, worker, delivered, ndata,
                   lastCall, misc, mouseHist>>

\* ----------------------------------------------------- the input translator

ChannelBoundAlways(ch) == TRUE

\* if (!inputs) / if (!main)
ChannelBound(ch) == ch # 0

\* the switch of winrun_spice_send_mouse_event on a bound channel: whether the
\* event type is known, the new mask, and the operations emitted in order
MouseSwitch(ev, inputs, bs) ==
    LET x == CastToInt(ev.x)
        y == CastToInt(ev.y)
        button == winrun_button_to_spice(ev.button)
        mask == winrun_button_to_mask(ev.button)
        scroll_y == CastToInt(ev.scroll_delta_y)
    IN CASE ev.event_type = WINRUN_MOUSE_EVENT_MOVE ->
              [ok |-> TRUE, button_state |-> bs,
               emitted |-> <<Position(inputs, x, y, bs)>>]
         [] ev.event_type = WINRUN_MOUSE_EVENT_PRESS ->
              LET nbs == BitOr(bs, mask)
              IN [ok |-> TRUE, button_state |-> nbs,
                  emitted |-> <<Position(inputs, x, y, nbs),
                                ButtonPress(inputs, button, nbs)>>]
         [] ev.event_type = WINRUN_MOUSE_EVENT_RELEASE ->
              [ok |-> TRUE, button_state |-> BitAndNot(bs, mask),
               emitted |-> <<Position(inputs, x, y, bs),
                             ButtonRelease(inputs, button, bs)>>]
         [] ev.event_type = WINRUN_MOUSE_EVENT_SCROLL ->
              [ok |-> TRUE, button_state |-> bs,
               emitted |->
                 IF scroll_y > 0
                 THEN Repeat(<<ButtonPress(inputs, SPICE_MOUSE_BUTTON_UP, bs),
                               ButtonRelease(inputs, SPICE_MOUSE_BUTTON_UP, bs)>>,
                             scroll_y)
                 ELSE IF scroll_y < 0
                 THEN Repeat(<<ButtonPress(inputs, SPICE_MOUSE_BUTTON_DOWN, bs),
                               ButtonRelease(inputs, SPICE_MOUSE_BUTTON_DOWN, bs)>>,
                             -scroll_y)
                 ELSE <<>>]
         [] OTHER -> [ok |-> FALSE, button_state |-> bs, emitted |-> <<>>]

\* the history of PRESS and RELEASE events, kept beside the mask
HeldAfter(ev) ==
    CASE ev.event_type = WINRUN_MOUSE_EVENT_PRESS -> held \cup {ev.button}
      [] ev.event_type = WINRUN_MOUSE_EVENT_RELEASE -> held \ {ev.button}
      [] OTHER -> held

PrAfter(ev, bs) ==
    CASE ev.event_type = WINRUN_MOUSE_EVENT_PRESS ->
           IF pr.st = "pressed" /\ pr.button = ev.button THEN pr
           ELSE [st |-> "pressed", button |-> ev.button, m |-> bs,
                 pure |-> BitAnd(bs, winrun_button_to_mask(ev.button)) = 0]
      [] ev.event_type = WINRUN_MOUSE_EVENT_RELEASE ->
           IF pr.st = "pressed" /\ pr.button = ev.button
           THEN [pr EXCEPT !.st = "released"]
           ELSE IF pr.st = "pressed" THEN [pr EXCEPT !.pure = FALSE]
           ELSE NoPr
      [] OTHER -> pr

\* winrun_spice_send_mouse_event with a null Stream or a null event
send_mouse_event_null(t) ==
    /\ pc[t] = "idle"
    /\ \E sn, en \in BOOLEAN :
         /\ sn \/ en
         /\ lastCall' = Call("mouse", sn, en, NoEvent, 0, "false", <<>>)
    /\ UNCHANGED <<mem, stream, send_mutex, extern, announced, pc, arg, snap,
                   worker, delivered, ndata, misc, mouseHist>>

\* a public operation called with a live handle and a non-null argument
Enter(t, to) ==
    /\ pc[t] = "idle"
    /\ mem = "live"
    /\ Goto(t, to)
    /\ UNCHANGED <<mem, stream, send_mutex, extern, announced, arg, snap,
                   worker, delivered, ndata, lastCall, misc, mouseHist>>

\* a public operation's pthread_mutex_lock
EnterLock(t, from, to) ==
    /\ pthread_mutex_lock(t, from, to)
    /\ UNCHANGED <<mem, stream, extern, announced, arg, snap, worker, delivered,
                   ndata, lastCall, misc, mouseHist>>

\* the critical section of winrun_spice_send_mouse_event, to its return
winrun_spice_send_mouse_event(t, ev) ==
    /\ pc[t] = "mouse_cs"
    /\ LET inputs == stream.inputs_channel
           r == MouseSwitch(ev, inputs, stream.button_state)
       IN IF ~ChannelBound(inputs)
          THEN /\ lastCall' = Call("mouse", FALSE, FALSE, ev, inputs, "false", <<>>)
               /\ UNCHANGED <<stream, mouseHist>>
          ELSE /\ stream' = [stream EXCEPT !.button_state = r.button_state]
               /\ lastCall' = Call("mouse", FALSE, FALSE, ev, inputs,
                                   IF r.ok THEN "true" ELSE "false", r.emitted)
               /\ held' = IF r.ok THEN HeldAfter(ev) ELSE held
               /\ pr' = IF r.ok THEN PrAfter(ev, stream.button_state) ELSE pr
    /\ send_mutex' = Unlocked(t)
    /\ Goto(t, "idle")
    /\ UNCHANGED <<mem, extern, announced, arg, snap, worker, delivered, ndata,
                   misc>>

\* the switch of winrun_spice_send_keyboard_event on a bound channel
KeySwitch(ev, inputs) ==
    LET base == IF ev.scan_code # 0 THEN ev.scan_code ELSE ev.key_code
        scancode == IF ev.is_extended_key THEN BitOr(base, ExtendedKeyBit) ELSE base
    IN CASE ev.event_type = WINRUN_KEY_EVENT_DOWN ->
              [ok |-> TRUE, emitted |-> <<KeyPress(inputs, scancode)>>]
         [] ev.event_type = WINRUN_KEY_EVENT_UP ->
              [ok |-> TRUE, emitted |-> <<KeyRelease(inputs, scancode)>>]
         [] OTHER -> [ok |-> FALSE, emitted |-> <<>>]

send_keyboard_event_null(t) ==
    /\ pc[t] = "idle"
    /\ \E sn, en \in BOOLEAN :
         /\ sn \/ en
         /\ lastCall' = Call("keyboard", sn, en, NoEvent, 0, "false", <<>>)
    /\ UNCHANGED <<mem, stream, send_mutex, extern, announced, pc, arg, snap,
                   worker, delivered, ndata, misc, mouseHist>>

\* the critical section of winrun_spice_send_keyboard_event, to its return
winrun_spice_send_keyboard_event(t, ev) ==
    /\ pc[t] = "key_cs"
    /\ LET inputs == stream.inputs_channel
           r == KeySwitch(ev, inputs)
       IN lastCall' = IF ~ChannelBound(inputs)
                      THEN Call("keyboard", FALSE, FALSE, ev, inputs, "false", <<>>)
                      ELSE Call("keyboard", FALSE, FALSE, ev, inputs,
                                IF r.ok THEN "true" ELSE "false", r.emitted)
    /\ send_mutex' = Unlocked(t)
    /\ Goto(t, "idle")
    /\ UNCHANGED <<mem, stream, extern, announced, arg, snap, worker, delivered,
                   ndata, misc, mouseHist>>
\* -------------------------------------------------- the clipboard coordinator

VD_AGENT_CLIPBOARD_SELECTION_CLIPBOARD == 0

ClipboardGrab(ch, selection, types) ==
    [op |-> "clipboard_grab", ch |-> ch, selection |-> selection, types |-> types]

ClipboardNotify(ch, selection, type, data, size) ==
    [op |-> "clipboard_notify", ch |-> ch, selection |-> selection, type |-> type,
     data |-> data, size |-> size]

ClipboardRequest(ch, selection, type) ==
    [op |-> "clipboard_request", ch |-> ch, selection |-> selection, type |-> type]

\* The "main-clipboard-selection" signal fires on a main channel the data
\* handler is connected to: on_clipboard_data is invoked on a dispatch thread.
\* data is 0 for a null pointer.  A null pointer or a zero size makes it return
\* at once.
SigClipboardData(d, ch, type, data, size) ==
    /\ pc[d] = "idle"
    /\ ndata < MaxDeliver
    /\ \E h \in handlers : h.obj = ch /\ h.sig = "data"
    /\ ndata' = ndata + 1
    /\ IF data = 0 \/ size = 0
       THEN UNCHANGED <<pc, arg>>
       ELSE /\ Goto(d, "cd_lock")
            /\ arg' = [arg EXCEPT ![d] = [sig |-> "data", channel |-> ch,
                                          type |-> type, data |-> data,
                                          size |-> size]]
    /\ UNCHANGED <<mem, stream, send_mutex, extern, announced, snap, worker,
                   delivered, lastCall, misc, mouseHist>>

DataHandlerNeverLocks(d) ==
    /\ pc[d] = "cd_lock"
    /\ Goto(d, "cd_cs")
    /\ UNCHANGED <<mem, stream, send_mutex, extern, announced, arg, snap, worker,
                   delivered, ndata, lastCall, misc, mouseHist>>

on_clipboard_data_lock(d) ==
    /\ pthread_mutex_lock(d, "cd_lock", "cd_cs")
    /\ UNCHANGED <<mem, stream, extern, announced, arg, snap, worker, delivered,
                   ndata, lastCall, misc, mouseHist>>

SameSequence(seq) == seq

SkipSequence(seq) == seq + 2

\* ++stream->clipboard_sequence
NextSequence(seq) == seq + 1

\* on_clipboard_data under the mutex: the snapshot and the new sequence number
on_clipboard_data_cs(d) ==
    /\ pc[d] = "cd_cs"
    /\ LET seq == NextSequence(stream.clipboard_sequence)
       IN /\ stream' = [stream EXCEPT !.clipboard_sequence = seq]
          /\ snap' = [snap EXCEPT ![d] = [cb |-> stream.clipboard_cb,
                                          cb_user_data |-> stream.clipboard_user_data,
                                          seq |-> seq]]
    /\ send_mutex' = Unlocked(d)
    /\ Goto(d, "cd_call")
    /\ UNCHANGED <<mem, extern, announced, arg, worker, delivered, ndata,
                   lastCall, misc, mouseHist>>

\* on_clipboard_data after the unlock: the call of the snapshotted callback.
\* The log gets one entry per arrival that took a sequence number; cb = 0 in
\* it says that no callback was invoked.
on_clipboard_data_call(d) ==
    /\ pc[d] = "cd_call"
    /\ delivered' =
         Append(delivered,
                [cb |-> snap[d].cb, user_data |-> snap[d].cb_user_data,
                 format |-> spice_to_winrun_format(arg[d].type),
                 data |-> arg[d].data, data_length |-> arg[d].size,
                 sequence_number |-> snap[d].seq])
    /\ Goto(d, "idle")
    /\ arg' = [arg EXCEPT ![d] = NoArg]
    /\ snap' = [snap EXCEPT ![d] = NoSnap]
    /\ UNCHANGED <<mem, stream, send_mutex, extern, announced, worker, ndata,
                   lastCall, misc, mouseHist>>

\* the scan of on_clipboard_grab from position i on: text ends it, the PNG
\* type is remembered and the scan goes on
RECURSIVE ScanTypes(_, _, _)
ScanTypes(types, i, preferred) ==
    IF i > Len(types) THEN preferred
    ELSE IF types[i] = VD_AGENT_CLIPBOARD_UTF8_TEXT THEN types[i]
    ELSE ScanTypes(types, i + 1,
                   IF types[i] = VD_AGENT_CLIPBOARD_IMAGE_PNG
                   THEN types[i] ELSE preferred)

\* preferred_type of on_clipboard_grab, for a non-empty list
PreferredType(types) == ScanTypes(types, 1, types[1])

\* The "main-clipboard-selection-grab" signal fires on a channel that has the
\* grab handler connected: on_clipboard_grab is invoked on a dispatch thread.
\* A null or empty list makes it return at once.
SigClipboardGrab(d, ch, selection, types, types_null) ==
    /\ pc[d] = "idle"
    /\ \E h \in handlers : h.obj = ch /\ h.sig = "grab"
    /\ IF types_null \/ Len(types) = 0
       THEN /\ lastCall' = Call("clipboard_grab", FALSE, types_null,
                                [selection |-> selection, types |-> types],
                                0, "void", <<>>)
            /\ UNCHANGED <<pc, arg>>
       ELSE /\ Goto(d, "cg_lock")
            /\ arg' = [arg EXCEPT ![d] = [sig |-> "grab", channel |-> ch,
                                          selection |-> selection, types |-> types,
                                          preferred_type |-> PreferredType(types)]]
            /\ UNCHANGED lastCall
    /\ UNCHANGED <<mem, stream, send_mutex, extern, announced, snap, worker,
                   delivered, ndata, misc, mouseHist>>

on_clipboard_grab_lock(d) ==
    /\ pthread_mutex_lock(d, "cg_lock", "cg_cs")
    /\ UNCHANGED <<mem, stream, extern, announced, arg, snap, worker, delivered,
                   ndata, lastCall, misc, mouseHist>>

\* on_clipboard_grab under the mutex: the request on the bound main channel
on_clipboard_grab(d) ==
    /\ pc[d] = "cg_cs"
    /\ LET main == stream.main_channel
       IN lastCall' =
            Call("clipboard_grab", FALSE, FALSE,
                 [selection |-> arg[d].selection, types |-> arg[d].types],
                 main, "void",
                 IF main # 0
                 THEN <<ClipboardRequest(main, arg[d].selection, arg[d].preferred_type)>>
                 ELSE <<>>)
    /\ send_mutex' = Unlocked(d)
    /\ Goto(d, "idle")
    /\ arg' = [arg EXCEPT ![d] = NoArg]
    /\ UNCHANGED <<mem, stream, extern, announced, snap, worker, delivered, ndata,
                   misc, mouseHist>>

\* winrun_spice_set_clipboard_callback with a null Stream
set_clipboard_callback_null(t) ==
    /\ pc[t] = "idle"
    /\ lastCall' = Call("set_clipboard_callback", TRUE, FALSE, NoEvent, 0, "void", <<>>)
    /\ UNCHANGED <<mem, stream, send_mutex, extern, announced, pc, arg, snap,
                   worker, delivered, ndata, misc, mouseHist>>

\* the critical section of winrun_spice_set_clipboard_callback
winrun_spice_set_clipboard_callback(t, clipboard_cb, user_data) ==
    /\ pc[t] = "setcb_cs"
    /\ stream' = [stream EXCEPT !.clipboard_cb = clipboard_cb,
                                !.clipboard_user_data = user_data]
    /\ lastCall' = Call("set_clipboard_callback", FALSE, FALSE,
                        [cb |-> clipboard_cb, user_data |-> user_data], 0, "void", <<>>)
    /\ send_mutex' = Unlocked(t)
    /\ Goto(t, "idle")
    /\ UNCHANGED <<mem, extern, announced, arg, snap, worker, delivered, ndata,
                   misc, mouseHist>>

\* winrun_spice_send_clipboard with a null Stream, clipboard or data pointer
send_clipboard_null(t) ==
    /\ pc[t] = "idle"
    /\ \E sn, cn \in BOOLEAN :
         /\ sn \/ cn
         /\ lastCall' = Call("clipboard", sn, cn, NoEvent, 0, "false", <<>>)
    /\ UNCHANGED <<mem, stream, send_mutex, extern, announced, pc, arg, snap,
                   worker, delivered, ndata, misc, mouseHist>>

\* the critical section of winrun_spice_send_clipboard, to its return
winrun_spice_send_clipboard(t, clipboard) ==
    /\ pc[t] = "clip_cs"
    /\ LET main == stream.main_channel
           spice_type == winrun_format_to_spice(clipboard.format)
       IN lastCall' =
            IF ~ChannelBound(main)
            THEN Call("clipboard", FALSE, FALSE, clipboard, main, "false", <<>>)
            ELSE Call("clipboard", FALSE, FALSE, clipboard, main, "true",
                      <<ClipboardGrab(main, VD_AGENT_CLIPBOARD_SELECTION_CLIPBOARD,
                                      <<spice_type>>),
                        ClipboardNotify(main, VD_AGENT_CLIPBOARD_SELECTION_CLIPBOARD,
                                        spice_type, clipboard.data,
                                        clipboard.data_length)>>)
    /\ send_mutex' = Unlocked(t)
    /\ Goto(t, "idle")
    /\ UNCHANGED <<mem, stream, extern, announced, arg, snap, worker, delivered,
                   ndata, misc, mouseHist>>

\* winrun_spice_request_clipboard with a null Stream
request_clipboard_null(t) ==
    /\ pc[t] = "idle"
    /\ lastCall' = Call("request_clipboard", TRUE, FALSE, NoEvent, 0, "void", <<>>)
    /\ UNCHANGED <<mem, stream, send_mutex, extern, announced, pc, arg, snap,
                   worker, delivered, ndata, misc, mouseHist>>

\* the critical section of winrun_spice_request_clipboard
winrun_spice_request_clipboard(t, format) ==
    /\ pc[t] = "req_cs"
    /\ LET main == stream.main_channel
       IN lastCall' =
            Call("request_clipboard", FALSE, FALSE, [format |-> format], main, "void",
                 IF ChannelBound(main)
                 THEN <<ClipboardRequest(main, VD_AGENT_CLIPBOARD_SELECTION_CLIPBOARD,
                                         winrun_format_to_spice(format))>>
                 ELSE <<>>)
    /\ send_mutex' = Unlocked(t)
    /\ Goto(t, "idle")
    /\ UNCHANGED <<mem, stream, extern, announced, arg, snap, worker, delivered,
                   ndata, misc, mouseHist>>

\* ------------------------------------------------------------ drag and drop

FileCopyEmpty(ch, sources) == [op |-> "file_copy_async", ch |-> ch, sources |-> <<>>]

FileCopyAsync(ch, sources) == [op |-> "file_copy_async", ch |-> ch, sources |-> sources]

\* The first listed file whose host path is missing ("null") or whose
\* g_file_new_for_path fails ("fail"); 0 when every file resolves ("ok").
FirstBad(files) ==
    LET bad == {i \in 1..Len(files) : files[i] # "ok"}
    IN IF bad = {} THEN 0 ELSE CHOOSE i \in bad : \A j \in bad : i <= j

\* ctx->sources after the resolving loop, which breaks at the first bad file:
\* TRUE where a file handle was stored, FALSE where the zeroed entry is left
ResolvedSources(files) ==
    [i \in 1..Len(files) |-> FirstBad(files) = 0 \/ i < FirstBad(files)]

ReleasesNothing(sources) == {}

\* the entries g_object_unref is called on by the loop
\* for (i = 0; i < file_count && sources[i]; i++), in the failure path and in
\* the completion callback
ReleasedEntries(sources) ==
    {i \in 1..Len(sources) : \A j \in 1..i : sources[j]}

\* the file handles of context id stored at the given entries
Handles(id, entries) == {<<id, i>> : i \in entries}

SameContext ==
    CHOOSE id \in 1..(MaxTransfers + 1) : \A k \in 1..(MaxTransfers + 1) : id <= k

\* g_new0(file_transfer_context, 1): a context not in use
NewContext ==
    CHOOSE id \in 1..(MaxTransfers + 1) :
        /\ id \notin gfiles.contexts
        /\ \A k \in 1..(MaxTransfers + 1) : k \notin gfiles.contexts => id <= k

send_drag_event_null(t) ==
    /\ pc[t] = "idle"
    /\ \E sn, en \in BOOLEAN :
         /\ sn \/ en
         /\ lastCall' = Call("drag", sn, en, NoEvent, 0, "false", <<>>)
    /\ UNCHANGED <<mem, stream, send_mutex, extern, announced, pc, arg, snap,
                   worker, delivered, ndata, misc, mouseHist>>

\* the critical section of winrun_spice_send_drag_event, to its return
winrun_spice_send_drag_event(t, ev) ==
    /\ pc[t] = "drag_cs"
    /\ LET main == stream.main_channel
           ctx == NewContext
           sources == ResolvedSources(ev.files)
           stored == {i \in 1..Len(sources) : sources[i]}
       IN IF ~ChannelBound(main)
          THEN /\ lastCall' = Call("drag", FALSE, FALSE, ev, main, "false", <<>>)
               /\ UNCHANGED xfer
          ELSE IF /\ ev.event_type = WINRUN_DRAG_EVENT_DROP
                  /\ ~ev.files_null
                  /\ Len(ev.files) > 0
          THEN IF FirstBad(ev.files) # 0
               THEN \* the handles stored so far are released, the context freed
                    /\ gfiles' =
                         [handles |-> (gfiles.handles \cup Handles(ctx, stored))
                                        \ Handles(ctx, ReleasedEntries(sources)),
                          contexts |-> (gfiles.contexts \cup {ctx}) \ {ctx}]
                    /\ lastCall' = Call("drag", FALSE, FALSE, ev, main, "false", <<>>)
                    /\ UNCHANGED <<transfers, wire>>
               ELSE /\ Len(transfers) < MaxTransfers
                    /\ transfers' = Append(transfers, [id |-> ctx, sources |-> sources,
                                                       channel |-> main])
                    /\ gfiles' = [handles |-> gfiles.handles \cup Handles(ctx, stored),
                                  contexts |-> gfiles.contexts \cup {ctx}]
                    /\ UNCHANGED wire
                    /\ lastCall' =
                         Call("drag", FALSE, FALSE, ev, main, "true",
                              <<FileCopyAsync(main, [i \in 1..Len(sources) |-> <<ctx, i>>])>>)
          ELSE /\ lastCall' = Call("drag", FALSE, FALSE, ev, main, "true", <<>>)
               /\ UNCHANGED xfer
    /\ send_mutex' = Unlocked(t)
    /\ Goto(t, "idle")
    /\ UNCHANGED <<mem, stream, extern, announced, arg, snap, worker, delivered,
                   ndata, errmsg, mouseHist>>

\* file_copy_complete_cb for the i-th copy in flight, on the dispatch context,
\* the copy having succeeded or failed: the handles of the context and the
\* context itself are released
file_copy_complete_cb(i, success) ==
    /\ i \in 1..Len(transfers)
    /\ LET ctx == transfers[i]
       IN gfiles' = [handles |-> gfiles.handles
                                   \ Handles(ctx.id, ReleasedEntries(ctx.sources)),
                     contexts |-> gfiles.contexts \ {ctx.id}]
    /\ transfers' = [j \in 1..(Len(transfers) - 1) |->
                       IF j < i THEN transfers[j] ELSE transfers[j + 1]]
    /\ UNCHANGED <<mem, stream, send_mutex, extern, announced, pc, arg, snap,
                   worker, delivered, ndata, lastCall, errmsg, wire, mouseHist>>

\* the window ids open is called with
WindowIds == {7, 9}

\* ------------------------------------------------------ the background worker

WINRUN_SPICE_CLOSE_REASON_REMOTE == 0

MetadataNoteSwapped(window_id) ==
    [kind |-> "metadata", window_id |-> window_id, width |-> MetaHeight,
     height |-> MetaWidth, scale_factor |-> MetaScale]

\* the metadata the worker passes to metadata_cb
MetadataNote(window_id) ==
    [kind |-> "metadata", window_id |-> window_id, width |-> MetaWidth,
     height |-> MetaHeight, scale_factor |-> MetaScale]

FrameNote == [kind |-> "frame"]

ClosedNote ==
    [kind |-> "closed", reason |-> WINRUN_SPICE_CLOSE_REASON_REMOTE,
     message |-> "Stream closed"]

\* winrun_mock_worker up to its loop: the metadata notification
worker_metadata ==
    /\ wpc = "w_meta"
    /\ notes' = IF stream.metadata_cb
                THEN Append(notes, MetadataNote(stream.window_id)) ELSE notes
    /\ wpc' = "w_check"
    /\ UNCHANGED <<mem, stream, send_mutex, extern, announced, pc, arg, snap,
                   nframes, delivered, ndata, lastCall, misc, mouseHist>>

WorkerContinuesAlways(running) == TRUE

WorkerStops(running) == FALSE

\* while (atomic_load(&stream->worker_running))
WorkerContinues(running) == running

\* The loop condition.  After MaxFrames frame notifications the worker stays
\* at the condition until the flag is cleared.
worker_check ==
    /\ wpc = "w_check"
    /\ IF WorkerContinues(stream.worker_running)
       THEN /\ (stream.frame_cb => nframes < MaxFrames)
            /\ wpc' = "w_frame"
       ELSE wpc' = "w_closed"
    /\ UNCHANGED <<mem, stream, send_mutex, extern, announced, pc, arg, snap,
                   notes, nframes, delivered, ndata, lastCall, misc, mouseHist>>

\* the loop body: one frame notification, then nanosleep
worker_frame ==
    /\ wpc = "w_frame"
    /\ IF stream.frame_cb
       THEN /\ notes' = Append(notes, FrameNote)
            /\ nframes' = nframes + 1
       ELSE UNCHANGED <<notes, nframes>>
    /\ wpc' = "w_check"
    /\ UNCHANGED <<mem, stream, send_mutex, extern, announced, pc, arg, snap,
                   delivered, ndata, lastCall, misc, mouseHist>>

\* after the loop: the closed notification, then the thread ends
worker_closed ==
    /\ wpc = "w_closed"
    /\ notes' = IF stream.closed_cb THEN Append(notes, ClosedNote) ELSE notes
    /\ wpc' = "done"
    /\ UNCHANGED <<mem, stream, send_mutex, extern, announced, pc, arg, snap,
                   nframes, delivered, ndata, lastCall, misc, mouseHist>>

winrun_mock_worker ==
    \/ worker_metadata
    \/ worker_check
    \/ worker_frame
    \/ worker_closed

\* ------------------------------------------------------------ open and close

\* the callbacks open is given: frame_cb, metadata_cb, closed_cb (FALSE is null)
CallbackSets == {<<TRUE, TRUE, TRUE>>, <<FALSE, FALSE, FALSE>>, <<FALSE, TRUE, TRUE>>}

NoStream == [NewStream(0, FALSE, FALSE, FALSE) EXCEPT !.worker_running = FALSE]

\* the descriptors winrun_spice_stream_open_shared is called with
SharedFds == {-1, 0, 5}

InvalidFdNever(shared_fd) == FALSE

\* if (shared_fd < 0)
InvalidFd(shared_fd) == shared_fd < 0

\* winrun_spice_stream_open_shared with a descriptor it rejects
open_shared_invalid_fd(shared_fd) ==
    /\ pc[App] = "start"
    /\ InvalidFd(shared_fd)
    /\ errmsg' = "Invalid shared-memory descriptor"
    /\ arg' = [arg EXCEPT ![App] = [sig |-> "open", transport |-> "shared",
                                    shared_fd |-> shared_fd, after |-> "open_failed"]]
    /\ Goto(App, "open_failed")
    /\ UNCHANGED <<mem, stream, send_mutex, extern, announced, snap, worker,
                   delivered, ndata, lastCall, xfer, mouseHist>>

\* winrun_spice_stream_create failing: calloc returns NULL
stream_create_fails ==
    /\ pc[App] = "start"
    /\ errmsg' = "Allocation failure"
    /\ Goto(App, "open_failed")
    /\ UNCHANGED <<mem, stream, send_mutex, extern, announced, arg, snap, worker,
                   delivered, ndata, lastCall, xfer, mouseHist>>

\* winrun_spice_stream_create, called by either open
winrun_spice_stream_create(transport, shared_fd, window_id, cbs) ==
    /\ pc[App] = "start"
    /\ transport = "shared" => ~InvalidFd(shared_fd)
    /\ mem' = "live"
    /\ stream' = NewStream(window_id, cbs[1], cbs[2], cbs[3])
    /\ send_mutex' = [st |-> "init", owner |-> Nobody]
    /\ arg' = [arg EXCEPT ![App] =
                 IF transport = "shared"
                 THEN [sig |-> "open", transport |-> transport,
                       shared_fd |-> shared_fd, after |-> "open_failed"]
                 ELSE [sig |-> "open", transport |-> transport,
                       after |-> "open_failed"]]
    /\ Goto(App, "o_session")
    /\ UNCHANGED <<extern, announced, snap, worker, delivered, ndata, lastCall,
                   misc, mouseHist>>

\* the error path of open: the message, then winrun_spice_stream_free
OpenFails(message) ==
    /\ errmsg' = message
    /\ Goto(App, "f_destroy")

\* spice_session_new returning NULL
open_session_fails ==
    /\ pc[App] = "o_session"
    /\ OpenFails("Unable to create Spice session")
    /\ UNCHANGED <<mem, stream, send_mutex, extern, announced, arg, snap, worker,
                   delivered, ndata, lastCall, xfer, mouseHist>>

NotConnected(hs, obj, sig, id) == hs

\* g_signal_connect(obj, sig, ...) returning id
Connected(hs, obj, sig, id) == hs \cup {[obj |-> obj, sig |-> sig, id |-> id]}

\* spice_session_new and the listener's g_signal_connect
open_session ==
    /\ pc[App] = "o_session"
    /\ stream' = [stream EXCEPT !.session = TRUE, !.channel_new_handler_id = next_id]
    /\ refs' = Ref(refs, SessionObj)
    /\ handlers' = Connected(handlers, SessionObj, "channel-new", next_id)
    /\ next_id' = next_id + 1
    /\ Goto(App, "o_connect")
    /\ UNCHANGED <<mem, send_mutex, connecting, announced, arg, snap, worker,
                   delivered, ndata, lastCall, misc, mouseHist>>

\* over TCP spice_session_connect; over the shared transport
\* spice_session_open_fd has been entered and its result is still to come
open_connect ==
    /\ pc[App] = "o_connect"
    /\ connecting' = TRUE
    /\ Goto(App, IF arg[App].transport = "tcp" THEN "o_worker" ELSE "o_openfd")
    /\ UNCHANGED <<mem, stream, send_mutex, handlers, next_id, refs, announced, arg,
                   snap, worker, delivered, ndata, lastCall, misc, mouseHist>>

\* spice_session_open_fd returns
open_fd(ok) ==
    /\ pc[App] = "o_openfd"
    /\ IF ok
       THEN /\ Goto(App, "o_worker")
            /\ UNCHANGED errmsg
       ELSE OpenFails("Failed to open Spice session with shared-memory descriptor")
    /\ UNCHANGED <<mem, stream, send_mutex, extern, announced, arg, snap, worker,
                   delivered, ndata, lastCall, xfer, mouseHist>>

\* winrun_spice_stream_start_worker: pthread_create succeeds and open returns
\* the handle, or it fails
winrun_spice_stream_start_worker(ok) ==
    /\ pc[App] = "o_worker"
    /\ IF ok
       THEN /\ wpc' = "w_meta"
            /\ Goto(App, "opened")
            /\ UNCHANGED <<stream, errmsg>>
       ELSE /\ stream' = [stream EXCEPT !.worker_running = FALSE]
            /\ OpenFails("Failed to spawn Spice worker thread")
            /\ UNCHANGED wpc
    /\ UNCHANGED <<mem, send_mutex, extern, announced, arg, snap, notes, nframes,
                   delivered, ndata, lastCall, xfer, mouseHist>>

\* winrun_spice_stream_close: atomic_store(&stream->worker_running, false)
close_store ==
    /\ pc[App] = "opened"
    /\ stream' = [stream EXCEPT !.worker_running = FALSE]
    /\ arg' = [arg EXCEPT ![App] = [@ EXCEPT !.after = "closed"]]
    /\ Goto(App, "c_join")
    /\ UNCHANGED <<mem, send_mutex, extern, announced, snap, worker, delivered,
                   ndata, lastCall, misc, mouseHist>>

JoinReadyAlways(w) == TRUE

\* pthread_join returns once the worker thread has ended
JoinReady(w) == w = "done"

close_join ==
    /\ pc[App] = "c_join"
    /\ JoinReady(wpc)
    /\ Goto(App, "f_destroy")
    /\ UNCHANGED <<mem, stream, send_mutex, extern, announced, arg, snap, worker,
                   delivered, ndata, lastCall, misc, mouseHist>>

\* winrun_spice_stream_free: pthread_mutex_destroy
free_destroy_mutex ==
    /\ pc[App] = "f_destroy"
    /\ send_mutex' = [send_mutex EXCEPT !.st = "destroyed"]
    /\ Goto(App, "f_disconnect")
    /\ UNCHANGED <<mem, stream, extern, announced, arg, snap, worker, delivered,
                   ndata, lastCall, misc, mouseHist>>

\* winrun_spice_stream_free: the listener and the four clipboard handlers are
\* disconnected, the fields read without the mutex
free_disconnect ==
    /\ pc[App] = "f_disconnect"
    /\ LET noListener ==
             IF stream.session /\ stream.channel_new_handler_id # 0
             THEN Disconnect(handlers, SessionObj, stream.channel_new_handler_id)
             ELSE handlers
       IN handlers' =
            IF stream.main_channel # 0
            THEN {h \in noListener :
                    ~(h.obj = stream.main_channel /\ h.id \in ClipboardIds(stream))}
            ELSE noListener
    /\ Goto(App, "f_unref")
    /\ UNCHANGED <<mem, stream, send_mutex, connecting, next_id, refs, announced,
                   arg, snap, worker, delivered, ndata, lastCall, misc, mouseHist>>

\* winrun_spice_stream_free: the channel references and the session are released
free_unref ==
    /\ pc[App] = "f_unref"
    /\ LET r1 == IF stream.inputs_channel # 0
                 THEN Unref(refs, stream.inputs_channel) ELSE refs
           r2 == IF stream.main_channel # 0 THEN Unref(r1, stream.main_channel) ELSE r1
       IN refs' = IF stream.session THEN Unref(r2, SessionObj) ELSE r2
    /\ Goto(App, "f_free")
    /\ UNCHANGED <<mem, stream, send_mutex, connecting, handlers, next_id, announced,
                   arg, snap, worker, delivered, ndata, lastCall, misc, mouseHist>>

\* winrun_spice_stream_free: free(stream); then open returns NULL or close returns
free_stream ==
    /\ pc[App] = "f_free"
    /\ mem' = "freed"
    /\ Goto(App, arg[App].after)
    /\ UNCHANGED <<stream, send_mutex, extern, announced, arg, snap, worker,
                   delivered, ndata, lastCall, misc, mouseHist>>

winrun_spice_stream_free ==
    \/ free_destroy_mutex
    \/ free_disconnect
    \/ free_unref
    \/ free_stream

winrun_spice_stream_open ==
    \/ \E shared_fd \in SharedFds : open_shared_invalid_fd(shared_fd)
    \/ stream_create_fails
    \/ \E w \in WindowIds, cbs \in CallbackSets :
         \/ winrun_spice_stream_create("tcp", 0, w, cbs)
         \/ \E shared_fd \in SharedFds :
              winrun_spice_stream_create("shared", shared_fd, w, cbs)
    \/ open_session_fails
    \/ open_session
    \/ open_connect
    \/ \E ok \in BOOLEAN : open_fd(ok)
    \/ \E ok \in BOOLEAN : winrun_spice_stream_start_worker(ok)

\* winrun_spice_stream_close with the null handle a failed open returned
close_null ==
    /\ pc[App] = "open_failed"
    /\ Goto(App, "closed_null")
    /\ UNCHANGED <<mem, stream, send_mutex, extern, announced, arg, snap, worker,
                   delivered, ndata, lastCall, misc, mouseHist>>

winrun_spice_stream_close ==
    \/ close_null
    \/ close_store
    \/ close_join
    \/ winrun_spice_stream_free

\* pthread_mutex_lock by a signal handler on a mutex that has been destroyed,
\* or in memory that has been freed: undefined.  The call may return (with an
\* error the handlers do not look at, the mutex not held) or never return.
lock_destroyed_mutex(d, from, to) ==
    /\ pc[d] = from
    /\ (mem # "live" \/ send_mutex.st # "init")
    /\ \E next \in {to, "hung"} : Goto(d, next)
    /\ UNCHANGED <<mem, stream, send_mutex, extern, announced, arg, snap, worker,
                   delivered, ndata, lastCall, misc, mouseHist>>

\* ------------------------------------------------- the state after open

\* the Stream a successful open returns, before any channel is announced
OpenedStream(window_id, frame_cb, metadata_cb, closed_cb) ==
    [NewStream(window_id, frame_cb, metadata_cb, closed_cb)
       EXCEPT !.session = TRUE, !.channel_new_handler_id = 1]

\* the application thread's arguments once open over TCP has returned
OpenedArg == [sig |-> "open", transport |-> "tcp", after |-> "open_failed"]

\* The state in which a successful open has just returned: the listener is
\* connected, the session is connecting, the worker is spawned.
InitOpened ==
    /\ mem = "live"
    /\ stream = OpenedStream(7, TRUE, TRUE, TRUE)
    /\ send_mutex = [st |-> "init", owner |-> Nobody]
    /\ connecting = TRUE
    /\ handlers = {[obj |-> SessionObj, sig |-> "channel-new", id |-> 1]}
    /\ next_id = 2
    /\ refs = [o \in {SessionObj} \cup Channels |-> IF o = SessionObj THEN 1 ELSE 0]
    /\ announced = 0
    /\ pc = [t \in Threads |-> IF t = App THEN "opened" ELSE "idle"]
    /\ arg = [t \in Threads |-> IF t = App THEN OpenedArg ELSE NoArg]
    /\ snap = [t \in Threads |-> NoSnap]
    /\ wpc = "w_meta"
    /\ notes = <<>>
    /\ nframes = 0
    /\ delivered = <<>>
    /\ ndata = 0
    /\ lastCall = NoCall
    /\ errmsg = ""
    /\ transfers = <<>>
    /\ gfiles = NoFiles
    /\ wire = <<>>
    /\ held = {}
    /\ pr = NoPr

\* The state after the listener has bound inputs channel 1 and main channel 3
\* of an opened Stream (on_channel_new for 1, then for 3).
InitBound ==
    /\ mem = "live"
    /\ stream = [OpenedStream(7, TRUE, TRUE, TRUE)
                   EXCEPT !.inputs_channel = 1, !.main_channel = 3,
                          !.clipboard_grab_handler_id = 2,
                          !.clipboard_data_handler_id = 3,
                          !.clipboard_request_handler_id = 4,
                          !.clipboard_release_handler_id = 5]
    /\ send_mutex = [st |-> "init", owner |-> Nobody]
    /\ connecting = TRUE
    /\ handlers = {[obj |-> SessionObj, sig |-> "channel-new", id |-> 1],
                   [obj |-> 3, sig |-> "grab", id |-> 2],
                   [obj |-> 3, sig |-> "data", id |-> 3],
                   [obj |-> 3, sig |-> "request", id |-> 4],
                   [obj |-> 3, sig |-> "release", id |-> 5]}
    /\ next_id = 6
    /\ refs = [o \in {SessionObj} \cup Channels |-> IF o \in {SessionObj, 1, 3} THEN 1 ELSE 0]
    /\ announced = 2
    /\ pc = [t \in Threads |-> IF t = App THEN "opened" ELSE "idle"]
    /\ arg = [t \in Threads |-> IF t = App THEN OpenedArg ELSE NoArg]
    /\ snap = [t \in Threads |-> NoSnap]
    /\ wpc = "w_meta"
    /\ notes = <<>>
    /\ nframes = 0
    /\ delivered = <<>>
    /\ ndata = 0
    /\ lastCall = NoCall
    /\ errmsg = ""
    /\ transfers = <<>>
    /\ gfiles = NoFiles
    /\ wire = <<>>
    /\ held = {}
    /\ pr = NoPr

\* ------------------------------------- the send operations on an open Stream

MouseEvent(type, button, dx, dy) ==
    [event_type |-> type, button |-> button, x |-> 3, y |-> -5,
     scroll_delta_x |-> dx, scroll_delta_y |-> dy]

\* scroll deltas drawn, in halves
ScrollDeltas == (-(2 * MaxScroll + 1)) .. (2 * MaxScroll + 1)

\* mouse events with the buttons bs; 4 is an event type outside the enum
MouseEventsOf(bs, scrolls) ==
    {MouseEvent(WINRUN_MOUSE_EVENT_MOVE, WINRUN_MOUSE_BUTTON_LEFT, 0, 0),
     MouseEvent(4, WINRUN_MOUSE_BUTTON_LEFT, 0, 0)}
    \cup {MouseEvent(ty, b, 0, 0) :
            ty \in {WINRUN_MOUSE_EVENT_PRESS, WINRUN_MOUSE_EVENT_RELEASE}, b \in bs}
    \cup {MouseEvent(WINRUN_MOUSE_EVENT_SCROLL, WINRUN_MOUSE_BUTTON_LEFT, 0, dy) :
            dy \in scrolls}
    \cup {MouseEvent(WINRUN_MOUSE_EVENT_SCROLL, WINRUN_MOUSE_BUTTON_LEFT, 4, dy) :
            dy \in scrolls \cap {0, 1}}

\* keyboard events drawn; 2 is an event type outside the enum
KeyEvents ==
    [event_type : {WINRUN_KEY_EVENT_DOWN, WINRUN_KEY_EVENT_UP, 2},
     key_code : {65}, scan_code : {0, 30}, is_extended_key : BOOLEAN]

ClipboardArgs ==
    [format : {WINRUN_CLIPBOARD_FORMAT_TEXT, WINRUN_CLIPBOARD_FORMAT_TIFF},
     data : {1}, data_length : {4}]

DragEvents ==
    [event_type : {WINRUN_DRAG_EVENT_ENTER, WINRUN_DRAG_EVENT_DROP},
     files : {<<>>, <<"ok">>, <<"ok", "null">>}, files_null : {FALSE}]

MouseOps(t, events) ==
    \/ send_mouse_event_null(t)
    \/ Enter(t, "mouse_lock")
    \/ EnterLock(t, "mouse_lock", "mouse_cs")
    \/ \E ev \in events : winrun_spice_send_mouse_event(t, ev)

KeyboardOps(t) ==
    \/ send_keyboard_event_null(t)
    \/ Enter(t, "key_lock")
    \/ EnterLock(t, "key_lock", "key_cs")
    \/ \E ev \in KeyEvents : winrun_spice_send_keyboard_event(t, ev)

SendClipboardOps(t) ==
    \/ send_clipboard_null(t)
    \/ Enter(t, "clip_lock")
    \/ EnterLock(t, "clip_lock", "clip_cs")
    \/ \E c \in ClipboardArgs : winrun_spice_send_clipboard(t, c)

DragOps(t) ==
    \/ send_drag_event_null(t)
    \/ Enter(t, "drag_lock")
    \/ EnterLock(t, "drag_lock", "drag_cs")
    \/ \E ev \in DragEvents : winrun_spice_send_drag_event(t, ev)

\* Both channels bound: two callers send mouse events.
InputButtons ==
    {WINRUN_MOUSE_BUTTON_LEFT, WINRUN_MOUSE_BUTTON_RIGHT, WINRUN_MOUSE_BUTTON_EXTRA1, 3}

NextInput ==
    \E t \in Callers : MouseOps(t, MouseEventsOf(InputButtons, ScrollDeltas))

SpecInput == InitBound /\ [][NextInput]_vars

\* No channel bound yet: the listener binds channels while two callers send
\* mouse, keyboard, clipboard and drag events.
ListenerSend(d) ==
    \/ \E ch \in {1, 3, 5} : SigChannelNew(d, ch)
    \/ on_channel_new_lock(d)
    \/ on_channel_new(d)

SendButtons == {WINRUN_MOUSE_BUTTON_LEFT, WINRUN_MOUSE_BUTTON_RIGHT}

NextSend ==
    \/ ListenerSend("d1")
    \/ \E t \in Callers : MouseOps(t, MouseEventsOf(SendButtons, {4}))
    \/ KeyboardOps("c1")
    \/ SendClipboardOps("c2")
    \/ DragOps("c2")
    \/ \E i \in 1..MaxTransfers, success \in BOOLEAN : file_copy_complete_cb(i, success)

SpecSend == InitOpened /\ [][NextSend]_vars
\* The main channel bound: two dispatch threads deliver guest clipboard data
\* while a caller registers and clears the clipboard callback.
DataTypes == {VD_AGENT_CLIPBOARD_UTF8_TEXT, VD_AGENT_CLIPBOARD_IMAGE_BMP}

CallbackPairs == {<<0, 0>>, <<1, 1>>}

ClipboardData(d) ==
    \/ \E ty \in DataTypes, data \in {0, 1}, size \in {0, 4} :
         SigClipboardData(d, 3, ty, data, size)
    \/ on_clipboard_data_lock(d)
    \/ on_clipboard_data_cs(d)
    \/ on_clipboard_data_call(d)

SetCallbackOps(t) ==
    \/ set_clipboard_callback_null(t)
    \/ Enter(t, "setcb_lock")
    \/ EnterLock(t, "setcb_lock", "setcb_cs")
    \/ \E p \in CallbackPairs : winrun_spice_set_clipboard_callback(t, p[1], p[2])

RequestOps(t) ==
    \/ request_clipboard_null(t)
    \/ Enter(t, "req_lock")
    \/ EnterLock(t, "req_lock", "req_cs")
    \/ \E f \in {WINRUN_CLIPBOARD_FORMAT_TEXT, WINRUN_CLIPBOARD_FORMAT_TIFF} :
         winrun_spice_request_clipboard(t, f)

NextClip ==
    \/ \E d \in Dispatch : ClipboardData(d)
    \/ SetCallbackOps("c1")
    \/ RequestOps("c2")

SpecClip == InitBound /\ [][NextClip]_vars

\* The main channel bound: two callers send clipboard content of every
\* format (6 is outside the enumeration) while a dispatch thread delivers
\* guest clipboard data.
AllClipboardArgs ==
    [format : WINRUN_CLIPBOARD_FORMAT_TEXT .. (WINRUN_CLIPBOARD_FORMAT_FILE_URL + 1),
     data : {1}, data_length : {4}]

SendClipboardAll(t) ==
    \/ send_clipboard_null(t)
    \/ Enter(t, "clip_lock")
    \/ EnterLock(t, "clip_lock", "clip_cs")
    \/ \E c \in AllClipboardArgs : winrun_spice_send_clipboard(t, c)

NextClipSend ==
    \/ ClipboardData("d1")
    \/ \E t \in Callers : SendClipboardAll(t)

SpecClipSend == InitBound /\ [][NextClipSend]_vars

\* The main channel bound: one caller sends DROP events with every list of up
\* to MaxFiles files and the other event types with lists of resolvable
\* files, a second caller sends a few drag events, and the file copies
\* complete.
FileLists == UNION {[1..n -> {"ok", "null", "fail"}] : n \in 0..MaxFiles}

AllDragEvents ==
    {ev \in [event_type : WINRUN_DRAG_EVENT_ENTER .. WINRUN_DRAG_EVENT_DROP,
             files : FileLists, files_null : BOOLEAN] :
        /\ ev.files_null => ev.files = <<>>
        /\ ev.event_type # WINRUN_DRAG_EVENT_DROP =>
              \A i \in 1..Len(ev.files) : ev.files[i] = "ok"}

DragAll(t) ==
    \/ send_drag_event_null(t)
    \/ Enter(t, "drag_lock")
    \/ EnterLock(t, "drag_lock", "drag_cs")
    \/ \E ev \in AllDragEvents : winrun_spice_send_drag_event(t, ev)

NextDrag ==
    \/ DragAll("c1")
    \/ DragOps("c2")
    \/ \E i \in 1..MaxTransfers, success \in BOOLEAN : file_copy_complete_cb(i, success)

SpecDrag == InitBound /\ [][NextDrag]_vars

\* Both channels bound: two callers send keyboard events of every type, with
\* and without a scan code, with codes below and above 0x100; 285 is 0x11D
\* and 321 is 0x141.
AllKeyEvents ==
    [event_type : {WINRUN_KEY_EVENT_DOWN, WINRUN_KEY_EVENT_UP, 2},
     key_code : {0, 65, 321}, scan_code : {0, 30, 285}, is_extended_key : BOOLEAN]

KeyboardAll(t) ==
    \/ send_keyboard_event_null(t)
    \/ Enter(t, "key_lock")
    \/ EnterLock(t, "key_lock", "key_cs")
    \/ \E ev \in AllKeyEvents : winrun_spice_send_keyboard_event(t, ev)

NextKey == \E t \in Callers : KeyboardAll(t)

SpecKey == InitBound /\ [][NextKey]_vars

\* The main channel bound: a dispatch thread delivers guest clipboard grabs
\* while a caller requests the clipboard.
GrabTypes ==
    {0, VD_AGENT_CLIPBOARD_UTF8_TEXT, VD_AGENT_CLIPBOARD_IMAGE_PNG,
     VD_AGENT_CLIPBOARD_IMAGE_BMP}

TypeLists == UNION {[1..n -> GrabTypes] : n \in 0..MaxTypes}

ClipboardGrabs(d) ==
    \/ \E sel \in {0, 1}, types \in TypeLists, types_null \in BOOLEAN :
         /\ types_null => types = <<>>
         /\ SigClipboardGrab(d, 3, sel, types, types_null)
    \/ on_clipboard_grab_lock(d)
    \/ on_clipboard_grab(d)

NextGrab ==
    \/ ClipboardGrabs("d1")
    \/ RequestOps("c2")

SpecGrab == InitBound /\ [][NextGrab]_vars

\* Both channels bound: guest clipboard data is delivered on d1, and the
\* clipboard callback, while it executes, calls set_clipboard_callback,
\* send_clipboard, request_clipboard or send_mouse_event on the same Stream;
\* a caller registers the callback, another sends mouse events, the worker
\* makes its notifications.
CallbackRunning(d) == pc[d] = "cd_call" /\ snap[d].cb # 0

ReenterEvents == MouseEventsOf({WINRUN_MOUSE_BUTTON_LEFT}, {})

\* the public calls made from inside the callback executing on d
CallbackCalls(d) ==
    /\ CallbackRunning(d)
    /\ \/ SetCallbackOps(CallbackFrame)
       \/ SendClipboardOps(CallbackFrame)
       \/ RequestOps(CallbackFrame)
       \/ MouseOps(CallbackFrame, ReenterEvents)

\* on_clipboard_data on d; the callback returns once the call it made, if
\* any, has returned
ClipboardDataReentrant(d) ==
    \/ SigClipboardData(d, 3, VD_AGENT_CLIPBOARD_UTF8_TEXT, 1, 4)
    \/ on_clipboard_data_lock(d)
    \/ on_clipboard_data_cs(d)
    \/ pc[CallbackFrame] = "idle" /\ on_clipboard_data_call(d)

\* the worker of a Stream that is not closed: the run-flag stays set
WorkerWhileOpen ==
    \/ worker_metadata
    \/ worker_check
    \/ worker_frame

NextReenter ==
    \/ ClipboardDataReentrant("d1")
    \/ CallbackCalls("d1")
    \/ SetCallbackOps("c1")
    \/ MouseOps("c2", ReenterEvents)
    \/ WorkerWhileOpen

SpecReenter == InitBound /\ [][NextReenter]_vars

\* ------------------------------------------- the send operations, step by step

\* The critical sections above are single steps.  Here each call to the Spice
\* library inside a critical section is a step of its own, appended to wire,
\* so that another thread may run between two emissions of one call whenever
\* the mutex lets it.  A call is identified by its thread and by the length of
\* wire when it read its channel.

\* the number of library calls the switch of winrun_spice_send_mouse_event makes
MouseEmissionCount(ev) ==
    LET scroll_y == CastToInt(ev.scroll_delta_y)
    IN CASE ev.event_type = WINRUN_MOUSE_EVENT_MOVE -> 1
         [] ev.event_type = WINRUN_MOUSE_EVENT_PRESS -> 2
         [] ev.event_type = WINRUN_MOUSE_EVENT_RELEASE -> 2
         [] ev.event_type = WINRUN_MOUSE_EVENT_SCROLL ->
              IF scroll_y > 0 THEN 2 * scroll_y
              ELSE IF scroll_y < 0 THEN 2 * (-scroll_y) ELSE 0
         [] OTHER -> 0

\* the k-th library call of the switch, with stream->button_state read as bs
MouseEmission(ev, inputs, k, bs) ==
    LET x == CastToInt(ev.x)
        y == CastToInt(ev.y)
        button == winrun_button_to_spice(ev.button)
        scroll_button == IF CastToInt(ev.scroll_delta_y) > 0
                         THEN SPICE_MOUSE_BUTTON_UP ELSE SPICE_MOUSE_BUTTON_DOWN
    IN CASE ev.event_type = WINRUN_MOUSE_EVENT_MOVE -> Position(inputs, x, y, bs)
         [] ev.event_type = WINRUN_MOUSE_EVENT_PRESS ->
              IF k = 1 THEN Position(inputs, x, y, bs)
              ELSE ButtonPress(inputs, button, bs)
         [] ev.event_type = WINRUN_MOUSE_EVENT_RELEASE ->
              IF k = 1 THEN Position(inputs, x, y, bs)
              ELSE ButtonRelease(inputs, button, bs)
         [] OTHER ->
              IF k % 2 = 1 THEN ButtonPress(inputs, scroll_button, bs)
              ELSE ButtonRelease(inputs, scroll_button, bs)

\* the number of library calls of a call in progress
EmissionCount(a) ==
    CASE a.op = "mouse" -> MouseEmissionCount(a.ev)
      [] a.op = "clipboard" -> 2
      [] OTHER -> 1

\* the next library call of a call in progress, on the channel it read
Emission(a, bs) ==
    CASE a.op = "mouse" -> MouseEmission(a.ev, a.channel, a.k, bs)
      [] a.op = "clipboard" ->
           IF a.k = 1
           THEN ClipboardGrab(a.channel, VD_AGENT_CLIPBOARD_SELECTION_CLIPBOARD,
                              <<winrun_format_to_spice(a.ev.format)>>)
           ELSE ClipboardNotify(a.channel, VD_AGENT_CLIPBOARD_SELECTION_CLIPBOARD,
                                winrun_format_to_spice(a.ev.format), a.ev.data,
                                a.ev.data_length)
      [] a.op = "request_clipboard" ->
           ClipboardRequest(a.channel, VD_AGENT_CLIPBOARD_SELECTION_CLIPBOARD,
                            winrun_format_to_spice(a.ev.format))
      [] OTHER -> ClipboardRequest(a.channel, a.ev.selection, a.ev.preferred_type)

InProgress(t, op, ev, ch) ==
    [sig |-> "steps", op |-> op, ev |-> ev, channel |-> ch, k |-> 1,
     call |-> <<t, Len(wire)>>, bs |-> stream.button_state]

\* the operations a call has appended to wire, in order
EmittedBy(call) ==
    LET Mine(w) == w.call = call
        mine == SelectSeq(wire, Mine)
    IN [i \in 1..Len(mine) |-> mine[i].e]

\* a call returns without a library call: the channel is not bound, or the
\* event type is unknown
ReturnEarly(t, op, ev, ch, ret) ==
    /\ lastCall' = Call(op, FALSE, FALSE, ev, ch, ret, <<>>)
    /\ send_mutex' = Unlocked(t)
    /\ Goto(t, "idle")
    /\ arg' = [arg EXCEPT ![t] = NoArg]
    /\ UNCHANGED <<mem, stream, extern, announced, snap, worker, delivered,
                   ndata, misc, mouseHist>>

\* a call goes on to its library calls
StartEmitting(t, op, ev, ch) ==
    /\ arg' = [arg EXCEPT ![t] = InProgress(t, op, ev, ch)]
    /\ Goto(t, "emit")
    /\ UNCHANGED <<mem, send_mutex, extern, announced, snap, worker, delivered,
                   ndata, lastCall, misc, mouseHist>>

\* winrun_spice_send_mouse_event reads stream->inputs_channel into its local
\* and enters the switch; PRESS sets the bit before its library calls
send_mouse_event_read_inputs(t, ev) ==
    /\ pc[t] = "mouse_cs"
    /\ LET inputs == stream.inputs_channel
       IN IF ~ChannelBound(inputs) \/ ~MouseSwitch(ev, inputs, stream.button_state).ok
          THEN ReturnEarly(t, "mouse", ev, inputs, "false")
          ELSE /\ StartEmitting(t, "mouse", ev, inputs)
               /\ stream' =
                    IF ev.event_type = WINRUN_MOUSE_EVENT_PRESS
                    THEN [stream EXCEPT !.button_state =
                            BitOr(@, winrun_button_to_mask(ev.button))]
                    ELSE stream

\* winrun_spice_send_clipboard reads stream->main_channel into its local
send_clipboard_read_main(t, clipboard) ==
    /\ pc[t] = "clip_cs"
    /\ LET main == stream.main_channel
       IN IF ~ChannelBound(main)
          THEN ReturnEarly(t, "clipboard", clipboard, main, "false")
          ELSE StartEmitting(t, "clipboard", clipboard, main) /\ UNCHANGED stream

\* winrun_spice_request_clipboard reads stream->main_channel into its local
request_clipboard_read_main(t, format) ==
    /\ pc[t] = "req_cs"
    /\ LET main == stream.main_channel
       IN IF ~ChannelBound(main)
          THEN ReturnEarly(t, "request_clipboard", [format |-> format], main, "void")
          ELSE /\ StartEmitting(t, "request_clipboard", [format |-> format], main)
               /\ UNCHANGED stream

\* on_clipboard_grab reads stream->main_channel into its local
on_clipboard_grab_read_main(d) ==
    /\ pc[d] = "cg_cs"
    /\ LET main == stream.main_channel
           ev == [selection |-> arg[d].selection, types |-> arg[d].types,
                  preferred_type |-> arg[d].preferred_type]
       IN IF main = 0
          THEN ReturnEarly(d, "clipboard_grab", ev, main, "void")
          ELSE StartEmitting(d, "clipboard_grab", ev, main) /\ UNCHANGED stream

\* one call into the Spice library, on the channel the call read, with
\* stream->button_state as it is now
spice_emit(t) ==
    /\ pc[t] = "emit"
    /\ arg[t].k <= EmissionCount(arg[t])
    /\ wire' = Append(wire, [call |-> arg[t].call,
                             e |-> Emission(arg[t], stream.button_state)])
    /\ arg' = [arg EXCEPT ![t].k = @ + 1]
    /\ UNCHANGED <<mem, stream, send_mutex, extern, announced, pc, snap, worker,
                   delivered, ndata, lastCall, errmsg, transfers, gfiles, mouseHist>>

\* after the last library call: RELEASE clears the bit, then
\* pthread_mutex_unlock and the return
unlock_and_return(t) ==
    /\ pc[t] = "emit"
    /\ arg[t].k > EmissionCount(arg[t])
    /\ LET a == arg[t]
           mouse == a.op = "mouse"
       IN /\ stream' =
               IF mouse /\ a.ev.event_type = WINRUN_MOUSE_EVENT_RELEASE
               THEN [stream EXCEPT !.button_state =
                       BitAndNot(@, winrun_button_to_mask(a.ev.button))]
               ELSE stream
          /\ lastCall' = Call(a.op, FALSE, FALSE, a.ev, a.channel,
                              IF a.op \in {"mouse", "clipboard"} THEN "true" ELSE "void",
                              EmittedBy(a.call))
          /\ held' = IF mouse THEN HeldAfter(a.ev) ELSE held
          /\ pr' = IF mouse THEN PrAfter(a.ev, a.bs) ELSE pr
    /\ send_mutex' = Unlocked(t)
    /\ Goto(t, "idle")
    /\ arg' = [arg EXCEPT ![t] = NoArg]
    /\ UNCHANGED <<mem, extern, announced, snap, worker, delivered, ndata, misc>>

\* Both channels bound: two callers send mouse events and one of them also
\* pushes the clipboard.
WireEvents ==
    MouseEventsOf({WINRUN_MOUSE_BUTTON_LEFT, WINRUN_MOUSE_BUTTON_RIGHT}, {4})

RebindEvents == MouseEventsOf({WINRUN_MOUSE_BUTTON_LEFT}, {})

WireClipboards ==
    {c \in ClipboardArgs : c.format = WINRUN_CLIPBOARD_FORMAT_TEXT}

WireRoom == Len(wire) < MaxWire

WireMouse(t, events) ==
    \/ WireRoom /\ Enter(t, "mouse_lock")
    \/ EnterLock(t, "mouse_lock", "mouse_cs")
    \/ \E ev \in events : send_mouse_event_read_inputs(t, ev)

WireClipboard(t) ==
    \/ WireRoom /\ Enter(t, "clip_lock")
    \/ EnterLock(t, "clip_lock", "clip_cs")
    \/ \E c \in WireClipboards : send_clipboard_read_main(t, c)

WireRequest(t) ==
    \/ WireRoom /\ Enter(t, "req_lock")
    \/ EnterLock(t, "req_lock", "req_cs")
    \/ request_clipboard_read_main(t, WINRUN_CLIPBOARD_FORMAT_TEXT)

WireGrab(d) ==
    \/ /\ WireRoom
       /\ \E ch \in MainChannels, types \in {<<VD_AGENT_CLIPBOARD_UTF8_TEXT>>} :
            SigClipboardGrab(d, ch, 0, types, FALSE)
    \/ on_clipboard_grab_lock(d)
    \/ on_clipboard_grab_read_main(d)

Rebind(d) ==
    \/ \E ch \in InputsChannels \cup MainChannels : SigChannelNew(d, ch)
    \/ on_channel_new_lock(d)
    \/ on_channel_new(d)

NextWire ==
    \/ \E t \in Callers : WireMouse(t, WireEvents)
    \/ WireClipboard("c1")
    \/ \E t \in Callers : spice_emit(t)
    \/ \E t \in Callers : unlock_and_return(t)

SpecWire == InitBound /\ [][NextWire]_vars

\* The Stream open and connecting: the listener on d1 binds and rebinds the
\* channels while a caller sends mouse events, another requests the
\* clipboard, and the guest grabs the clipboard on d2.
Senders == Callers \cup {"d2"}

NextRebind ==
    \/ Rebind("d1")
    \/ WireMouse("c1", RebindEvents)
    \/ WireRequest("c2")
    \/ WireGrab("d2")
    \/ \E t \in Senders : spice_emit(t)
    \/ \E t \in Senders : unlock_and_return(t)

SpecRebind == InitOpened /\ [][NextRebind]_vars

\* ------------------------------------ the clipboard callback pair, step by step

\* The two stores of winrun_spice_set_clipboard_callback and the two loads and
\* the increment of on_clipboard_data, each a step of its own inside the
\* critical section.

\* stream->clipboard_cb = clipboard_cb
set_clipboard_callback_store_cb(t, clipboard_cb, user_data) ==
    /\ pc[t] = "setcb_cs"
    /\ stream' = [stream EXCEPT !.clipboard_cb = clipboard_cb]
    /\ arg' = [arg EXCEPT ![t] = [sig |-> "set_clipboard_callback",
                                  cb |-> clipboard_cb, user_data |-> user_data]]
    /\ Goto(t, "setcb_user_data")
    /\ UNCHANGED <<mem, send_mutex, extern, announced, snap, worker, delivered,
                   ndata, lastCall, misc, mouseHist>>

\* stream->clipboard_user_data = user_data, the unlock and the return
set_clipboard_callback_store_user_data(t) ==
    /\ pc[t] = "setcb_user_data"
    /\ stream' = [stream EXCEPT !.clipboard_user_data = arg[t].user_data]
    /\ lastCall' = Call("set_clipboard_callback", FALSE, FALSE,
                        [cb |-> arg[t].cb, user_data |-> arg[t].user_data],
                        0, "void", <<>>)
    /\ send_mutex' = Unlocked(t)
    /\ Goto(t, "idle")
    /\ arg' = [arg EXCEPT ![t] = NoArg]
    /\ UNCHANGED <<mem, extern, announced, snap, worker, delivered, ndata, misc,
                   mouseHist>>

\* winrun_clipboard_cb cb = stream->clipboard_cb
on_clipboard_data_read_cb(d) ==
    /\ pc[d] = "cd_cs"
    /\ snap' = [snap EXCEPT ![d].cb = stream.clipboard_cb]
    /\ Goto(d, "cd_user_data")
    /\ UNCHANGED <<mem, stream, send_mutex, extern, announced, arg, worker,
                   delivered, ndata, lastCall, misc, mouseHist>>

\* void *cb_user_data = stream->clipboard_user_data
on_clipboard_data_read_user_data(d) ==
    /\ pc[d] = "cd_user_data"
    /\ snap' = [snap EXCEPT ![d].cb_user_data = stream.clipboard_user_data]
    /\ Goto(d, "cd_seq")
    /\ UNCHANGED <<mem, stream, send_mutex, extern, announced, arg, worker,
                   delivered, ndata, lastCall, misc, mouseHist>>

\* uint64_t seq = ++stream->clipboard_sequence, and the unlock
on_clipboard_data_increment(d) ==
    /\ pc[d] = "cd_seq"
    /\ LET seq == NextSequence(stream.clipboard_sequence)
       IN /\ stream' = [stream EXCEPT !.clipboard_sequence = seq]
          /\ snap' = [snap EXCEPT ![d].seq = seq]
    /\ send_mutex' = Unlocked(d)
    /\ Goto(d, "cd_call")
    /\ UNCHANGED <<mem, extern, announced, arg, worker, delivered, ndata,
                   lastCall, misc, mouseHist>>

\* The main channel bound: guest clipboard data arrives on both dispatch
\* threads while two callers register callbacks; function i is registered
\* with user-data i, and <<0, 0>> clears the callback.
Registrations == {<<0, 0>>, <<1, 1>>, <<2, 2>>}

PairData(d) ==
    \/ \E data \in {0, 1} : SigClipboardData(d, 3, VD_AGENT_CLIPBOARD_UTF8_TEXT, data, 4)
    \/ on_clipboard_data_lock(d)
    \/ on_clipboard_data_read_cb(d)
    \/ on_clipboard_data_read_user_data(d)
    \/ on_clipboard_data_increment(d)
    \/ on_clipboard_data_call(d)

PairSet(t) ==
    \/ Enter(t, "setcb_lock")
    \/ EnterLock(t, "setcb_lock", "setcb_cs")
    \/ \E p \in Registrations : set_clipboard_callback_store_cb(t, p[1], p[2])
    \/ set_clipboard_callback_store_user_data(t)

NextPair ==
    \/ \E d \in Dispatch : PairData(d)
    \/ \E t \in Callers : PairSet(t)

SpecPair == InitBound /\ [][NextPair]_vars

\* ------------------------------------------------------- the error writer

\* Bytes: 0 is the terminator, JunkByte what the caller's buffer holds before
\* a write, MessageChars the characters of a message.
JunkByte == 1
MessageChars == {2, 3}

StrlenUnbounded(s, maxlen) == Len(s) - 1

\* strnlen(s, maxlen) for the bytes s of a terminated string: the number of
\* bytes before the terminator, but at most maxlen
RECURSIVE strnlen(_, _)
strnlen(s, maxlen) ==
    IF maxlen = 0 \/ s[1] = 0 THEN 0
    ELSE 1 + strnlen(Tail(s), maxlen - 1)

\* the bytes of the C string with the characters chars
CString(chars) == chars \o <<0>>

\* winrun_write_error(buffer, length, message): the buffer's bytes afterwards
\* and the number of bytes written.  A byte written past the end of the
\* buffer is counted and has no place in bytes.
winrun_write_error(buffer, length, message) ==
    IF buffer.null \/ length = 0 \/ message.null
    THEN [bytes |-> buffer.bytes, written |-> 0]
    ELSE LET src == CString(message.chars)
             msg_len == strnlen(src, length - 1)
         IN [bytes |-> [i \in 1..Len(buffer.bytes) |->
                          IF i <= msg_len THEN src[i]
                          ELSE IF i = msg_len + 1 THEN 0
                          ELSE buffer.bytes[i]],
             written |-> msg_len + 1]

\* the buffers a caller supplies: none, or 0..MaxBuffer bytes of junk
Buffers ==
    {[null |-> TRUE, bytes |-> <<>>]}
      \cup {[null |-> FALSE, bytes |-> [i \in 1..n |-> JunkByte]] : n \in 0..MaxBuffer}

Messages ==
    {[null |-> TRUE, chars |-> <<>>]}
      \cup {[null |-> FALSE, chars |-> c] :
               c \in UNION {[1..n -> MessageChars] : n \in 0..MaxMessage}}

\* No Stream exists; errmsg holds the caller's error buffer.
InitError ==
    /\ mem = "none"
    /\ stream = NoStream
    /\ send_mutex = [st |-> "uninit", owner |-> Nobody]
    /\ connecting = FALSE
    /\ handlers = {}
    /\ next_id = 1
    /\ refs = [o \in {SessionObj} \cup Channels |-> 0]
    /\ announced = 0
    /\ pc = [t \in Threads |-> IF t = App THEN "start" ELSE "idle"]
    /\ arg = [t \in Threads |-> NoArg]
    /\ snap = [t \in Threads |-> NoSnap]
    /\ wpc = "none"
    /\ notes = <<>>
    /\ nframes = 0
    /\ delivered = <<>>
    /\ ndata = 0
    /\ lastCall = NoCall
    /\ errmsg \in Buffers
    /\ transfers = <<>>
    /\ gfiles = NoFiles
    /\ wire = <<>>
    /\ held = {}
    /\ pr = NoPr

\* one call of winrun_write_error on the buffer, with the length given; for a
\* null buffer any length may be given
write_error(length, message) ==
    /\ errmsg.null \/ length = Len(errmsg.bytes)
    /\ LET r == winrun_write_error(errmsg, length, message)
       IN /\ errmsg' = [errmsg EXCEPT !.bytes = r.bytes]
          /\ lastCall' = Call("write_error", FALSE, message.null,
                              [length |-> length, message |-> message],
                              0, "void", <<r.written>>)
    /\ UNCHANGED <<mem, stream, send_mutex, extern, announced, pc, arg, snap,
                   worker, delivered, ndata, xfer, mouseHist>>

NextError ==
    \E length \in 0..MaxBuffer, message \in Messages : write_error(length, message)

SpecError == InitError /\ [][NextError]_vars

\* ------------------------------------------------- the life of one Stream

\* Before open is called: no Stream exists.
Init ==
    /\ mem = "none"
    /\ stream = NoStream
    /\ send_mutex = [st |-> "uninit", owner |-> Nobody]
    /\ connecting = FALSE
    /\ handlers = {}
    /\ next_id = 1
    /\ refs = [o \in {SessionObj} \cup Channels |-> 0]
    /\ announced = 0
    /\ pc = [t \in Threads |-> IF t = App THEN "start" ELSE "idle"]
    /\ arg = [t \in Threads |-> NoArg]
    /\ snap = [t \in Threads |-> NoSnap]
    /\ wpc = "none"
    /\ notes = <<>>
    /\ nframes = 0
    /\ delivered = <<>>
    /\ ndata = 0
    /\ lastCall = NoCall
    /\ errmsg = ""
    /\ transfers = <<>>
    /\ gfiles = NoFiles
    /\ wire = <<>>
    /\ held = {}
    /\ pr = NoPr

\* the external library's signals during the life of the Stream, on one
\* dispatch thread; a handler may find the mutex destroyed
Signals(d) ==
    \/ \E ch \in {1, 3} : SigChannelNew(d, ch)
    \/ on_channel_new_lock(d)
    \/ lock_destroyed_mutex(d, "chn_lock", "chn_cs")
    \/ on_channel_new(d)
    \/ SigClipboardData(d, 3, VD_AGENT_CLIPBOARD_UTF8_TEXT, 1, 4)
    \/ on_clipboard_data_lock(d)
    \/ lock_destroyed_mutex(d, "cd_lock", "cd_cs")
    \/ on_clipboard_data_cs(d)
    \/ on_clipboard_data_call(d)

\* One Stream from open to close: the application thread opens and later
\* closes it, the worker runs, the library delivers signals.
Next ==
    \/ winrun_spice_stream_open
    \/ winrun_spice_stream_close
    \/ winrun_mock_worker
    \/ Signals("d1")

Spec == Init /\ [][Next]_vars

\* The worker's callbacks return and the threads are scheduled fairly; close
\* and free run to their end once called.
FairSpec ==
    /\ Spec
    /\ WF_vars(winrun_mock_worker)
    /\ WF_vars(close_join \/ winrun_spice_stream_free)

\* One opened Stream with file copies in flight: a caller drops files while
\* the Stream is open, the listener binds and rebinds the main channel, the
\* copies complete at any time, and the application closes the Stream once
\* no caller is inside a call.
LifeDragEvents ==
    [event_type : {WINRUN_DRAG_EVENT_DROP},
     files : {<<"ok">>, <<"ok", "ok">>, <<"ok", "fail">>}, files_null : {FALSE}]

DragWhileOpen(t) ==
    /\ pc[App] = "opened"
    /\ \/ Enter(t, "drag_lock")
       \/ EnterLock(t, "drag_lock", "drag_cs")
       \/ \E ev \in LifeDragEvents : winrun_spice_send_drag_event(t, ev)

RebindMain(d) ==
    \/ \E ch \in MainChannels : SigChannelNew(d, ch)
    \/ on_channel_new_lock(d)
    \/ lock_destroyed_mutex(d, "chn_lock", "chn_cs")
    \/ on_channel_new(d)

CloseWhenIdle ==
    /\ \A t \in Callers : pc[t] = "idle"
    /\ winrun_spice_stream_close

NextDragLife ==
    \/ DragWhileOpen("c1")
    \/ RebindMain("d1")
    \/ \E i \in 1..MaxTransfers, success \in BOOLEAN : file_copy_complete_cb(i, success)
    \/ winrun_mock_worker
    \/ CloseWhenIdle

SpecDragLife == InitOpened /\ [][NextDragLife]_vars

\* ----------------------------------------------------------------- claims

IsPressRelease(ev) ==
    ev.event_type \in {WINRUN_MOUSE_EVENT_PRESS, WINRUN_MOUSE_EVENT_RELEASE}

\* C2 as stated: once a PRESS of a button b has been followed by a RELEASE of
\* b, with no PRESS of another button in between, the tracked mask equals the
\* mask before the first PRESS, whatever that mask was.
C2_AnyMaskRestored ==
    pr.st = "released" => stream.button_state = pr.m

\* C2 (amended): a PRESS of b followed by a RELEASE of b restores the mask m
\* held before the first PRESS, provided b's bit was not set in m and no
\* PRESS or RELEASE of another button came in between.
C2_PressReleaseRestores ==
    (pr.st = "released" /\ pr.pure) => stream.button_state = pr.m

C2_Witness ==
    /\ pr.st = "released"
    /\ pr.pure
    /\ pr.m # 0
    /\ stream.button_state = pr.m
    /\ lastCall.op = "mouse"
    /\ lastCall.ret = "true"
    /\ lastCall.ev.event_type = WINRUN_MOUSE_EVENT_RELEASE

\* the union of the mask bits of a set of buttons, from the protocol's table
MaskBit(b) ==
    CASE b = WINRUN_MOUSE_BUTTON_LEFT -> 1
      [] b = WINRUN_MOUSE_BUTTON_RIGHT -> 4
      [] b = WINRUN_MOUSE_BUTTON_MIDDLE -> 2
      [] b = WINRUN_MOUSE_BUTTON_EXTRA1 -> 8
      [] b = WINRUN_MOUSE_BUTTON_EXTRA2 -> 16
      [] OTHER -> 0

RECURSIVE MaskUnion(_)
MaskUnion(S) ==
    IF S = {} THEN 0
    ELSE LET b == CHOOSE c \in S : TRUE
         IN BitOr(MaskBit(b), MaskUnion(S \ {b}))

\* a step that completes a public call of a caller thread
Completes(t) == pc[t] # "idle" /\ pc'[t] = "idle"

\* C3: the tracked mask is the union of the mask bits of the buttons whose
\* latest successful PRESS/RELEASE event was a PRESS (so PRESS LEFT, PRESS
\* RIGHT, RELEASE LEFT leaves RIGHT's bit alone), and a completed call that is
\* not a mouse PRESS or RELEASE leaves the mask as it was.
C3_MaskIsHeldButtons ==
    /\ [](stream.button_state = MaskUnion(held))
    /\ [](held = {WINRUN_MOUSE_BUTTON_RIGHT} => stream.button_state = 4)
    /\ [][\A t \in Callers :
            (Completes(t) /\ ~(lastCall'.op = "mouse" /\ lastCall'.ret = "true"
                               /\ IsPressRelease(lastCall'.ev)))
            => stream'.button_state = stream.button_state]_vars

C3_Witness ==
    /\ held = {WINRUN_MOUSE_BUTTON_RIGHT}
    /\ stream.button_state = 4
    /\ lastCall.op = "mouse"
    /\ lastCall.ev.event_type = WINRUN_MOUSE_EVENT_RELEASE
    /\ lastCall.ev.button = WINRUN_MOUSE_BUTTON_LEFT
    /\ lastCall.ret = "true"

Abs(n) == IF n < 0 THEN -n ELSE n

IsScroll(c) ==
    /\ c.op = "mouse"
    /\ ~c.stream_null
    /\ ~c.arg_null
    /\ c.channel # 0
    /\ c.ev.event_type = WINRUN_MOUSE_EVENT_SCROLL

Rejecting(c) ==
    /\ c.op \in {"mouse", "keyboard", "clipboard", "drag"}
    /\ \/ c.stream_null
       \/ c.arg_null
       \/ c.channel = 0
       \/ c.op = "mouse" /\ c.ev.event_type \notin 0..3
       \/ c.op = "keyboard" /\ c.ev.event_type \notin 0..1

\* C5: a send operation given a null Stream, a null argument, an unbound
\* required channel or an unknown mouse/keyboard event type returns false,
\* emits nothing, invokes no callback and leaves the Stream's fields, the
\* file copies in flight and every binding unchanged; so do the steps of a
\* caller before its critical section.
C5_RejectedSendChangesNothing ==
    [][/\ (lastCall' # lastCall \/ \E t \in Callers : Completes(t))
          => (Rejecting(lastCall')
                => /\ lastCall'.ret = "false"
                   /\ lastCall'.emitted = <<>>
                   /\ stream' = stream
                   /\ delivered' = delivered
                   /\ notes' = notes
                   /\ transfers' = transfers
                   /\ handlers' = handlers
                   /\ refs' = refs)
       /\ \A t \in Callers :
            (pc'[t] # pc[t] /\ ~Completes(t)) => stream' = stream]_vars

C5_Witness ==
    /\ lastCall.op = "mouse"
    /\ ~lastCall.stream_null
    /\ ~lastCall.arg_null
    /\ lastCall.channel # 0
    /\ lastCall.ev.event_type = 4
    /\ lastCall.ret = "false"
    /\ stream.button_state # 0
\* the arrivals whose callback was invoked, in the order of the invocations
Invoked == SelectSeq(delivered, LAMBDA e : e.cb # 0)

\* the sequence numbers taken so far: by the arrivals logged and by those
\* between their unlock and their callback call
InFlight == {d \in Dispatch : pc[d] = "cd_call"}

TakenNumbers ==
    {delivered[i].sequence_number : i \in 1..Len(delivered)}
      \cup {snap[d].seq : d \in InFlight}

\* C1 as stated: the i-th invocation of the clipboard callback carries the
\* sequence number i, also under concurrent delivery.
C1_CallbackSeesOneTwoThree ==
    \A i \in 1..Len(Invoked) : Invoked[i].sequence_number = i

\* C1 (amended): the sequence numbers are handed out 1, 2, 3, ... without gap
\* or repeat in the order the arrivals pass the mutex, one per accepted
\* arrival, and each callback invocation carries the number of its arrival;
\* so the numbers the callback sees are pairwise distinct and lie in
\* 1..counter, but the invocations need not come in numeric order and a
\* number taken while no callback was registered is seen by none.
C1_SequenceNumbersUnique ==
    /\ [](/\ TakenNumbers = 1..stream.clipboard_sequence
          /\ Cardinality(TakenNumbers) = Len(delivered) + Cardinality(InFlight)
          /\ \A i, j \in 1..Len(Invoked) :
               i # j => Invoked[i].sequence_number # Invoked[j].sequence_number)
    /\ [][\A d \in Dispatch :
            (pc[d] = "cd_cs" /\ pc'[d] = "cd_call")
            => /\ snap'[d].seq = stream.clipboard_sequence + 1
               /\ stream'.clipboard_sequence = stream.clipboard_sequence + 1]_vars

C1_Witness ==
    /\ Len(Invoked) = 2
    /\ Invoked[1].sequence_number = 2
    /\ Invoked[2].sequence_number = 1
\* ---- the worker's notifications (Spec, FairSpec)

NotesOf(kind) == {i \in 1..Len(notes) : notes[i].kind = kind}

\* close has been called on a Stream that open returned
CloseCalled ==
    /\ pc[App] \in {"c_join", "f_destroy", "f_disconnect", "f_unref", "f_free", "closed"}
    /\ arg[App].after = "closed"

\* close has joined the worker
JoinReturned == CloseCalled /\ pc[App] # "c_join"

\* C6: a Stream with a metadata callback gets exactly one metadata
\* notification over its lifetime; it carries the Stream's window id, width
\* 800, height 600 and scale 1.0 and it comes before every frame notification
\* and before the closed notification, whatever close and the signal handlers
\* do meanwhile.
C6_OneMetadataFirst ==
    /\ Cardinality(NotesOf("metadata")) <= 1
    /\ \A i \in NotesOf("metadata") :
         /\ i = 1
         /\ notes[i].window_id = stream.window_id
         /\ notes[i].window_id \in WindowIds
         /\ notes[i].width = MetaWidth
         /\ notes[i].height = MetaHeight
         /\ notes[i].scale_factor = MetaScale
    /\ (stream.metadata_cb /\ notes # <<>>) => 1 \in NotesOf("metadata")
    /\ (stream.metadata_cb /\ wpc \notin {"none", "w_meta"}) =>
         Cardinality(NotesOf("metadata")) = 1
    /\ ~stream.metadata_cb => NotesOf("metadata") = {}

\* a closed Stream whose worker notified metadata, two frames and closed
C6_Witness ==
    /\ pc[App] = "closed"
    /\ stream.metadata_cb
    /\ Len(notes) = 4
    /\ notes[1].kind = "metadata"
    /\ notes[2].kind = "frame"
    /\ notes[4].kind = "closed"

\* C7: a Stream that is closed gets exactly one closed notification; it comes
\* only after the run-flag was cleared, after the last frame notification
\* (also with zero frames) and before close returns; once close has joined the
\* worker no further metadata, frame or closed notification is made.
C7_OneClosedLast ==
    /\ [](/\ Cardinality(NotesOf("closed")) <= 1
          /\ \A i \in NotesOf("closed") :
               /\ i = Len(notes)
               /\ notes[i] = ClosedNote
               /\ ~stream.worker_running
               /\ CloseCalled
          /\ (stream.closed_cb /\ JoinReturned) => Cardinality(NotesOf("closed")) = 1
          /\ JoinReturned => wpc = "done")
    /\ [][JoinReturned => notes' = notes]_vars

\* close was called before the first frame: metadata, then closed, no frame
C7_Witness ==
    /\ pc[App] = "closed"
    /\ Len(notes) = 2
    /\ notes[1].kind = "metadata"
    /\ notes[2] = ClosedNote

\* C8: once close has cleared the run-flag, the worker leaves its loop and
\* ends and close returns, under fair scheduling; the run-flag never goes
\* back to true.
C8_WorkerTerminates ==
    /\ (pc[App] = "c_join") ~> (wpc = "done" /\ pc[App] = "closed")
    /\ [][(mem # "none" /\ ~stream.worker_running) => ~stream'.worker_running]_vars

\* close returned after the worker had made one frame notification
C8_Witness ==
    /\ pc[App] = "closed"
    /\ wpc = "done"
    /\ ~stream.worker_running
    /\ nframes = 1

\* ---- teardown against the signal handlers (Spec)

\* the positions at which a signal handler is about to use the Stream's mutex
\* or its fields
HandlerPcs == {"chn_lock", "chn_cs", "cd_lock", "cd_cs"}

\* C9: a channel-discovery or clipboard signal delivered at any moment during
\* close never runs against a Stream whose mutex is destroyed or whose memory
\* is freed.
C9_NoSignalOnTornDownStream ==
    \A d \in Dispatch :
        (CloseCalled /\ pc[d] \in HandlerPcs) =>
            (mem = "live" /\ send_mutex.st = "init")

\* the positions from which the next step reads or writes the channel
\* references or the clipboard callback fields
GuardedPcs ==
    {"chn_cs", "cd_cs", "mouse_cs", "key_cs", "clip_cs", "req_cs", "drag_cs",
     "setcb_cs", "f_disconnect", "f_unref"}

\* C10: a thread about to read or write a channel reference or the clipboard
\* callback fields holds the Stream's mutex.
C10_GuardedFieldsUnderMutex ==
    \A t \in Threads :
        pc[t] \in GuardedPcs => (send_mutex.st = "init" /\ send_mutex.owner = t)
\* ---- the channel references (Spec)

\* the Stream exists and its teardown has not yet released the references
BeforeRelease ==
    pc[App] \in {"o_connect", "o_worker", "o_openfd", "opened", "c_join", "f_destroy",
                 "f_disconnect", "f_unref"}

\* C11: at most one inputs and one main channel are bound, the Stream holds
\* exactly one counted reference on each bound channel and none on any other
\* channel, and once close has returned it holds no reference at all.
C11_OneReferencePerBoundChannel ==
    /\ stream.inputs_channel \in {0} \cup InputsChannels
    /\ stream.main_channel \in {0} \cup MainChannels
    /\ BeforeRelease =>
         \A ch \in Channels :
            refs[ch] = IF ch \in {stream.inputs_channel, stream.main_channel}
                       THEN 1 ELSE 0
    /\ pc[App] = "closed" => \A o \in {SessionObj} \cup Channels : refs[o] = 0
\* ---- the guest's clipboard grab (SpecGrab)

IsImageType(t) == t \in {VD_AGENT_CLIPBOARD_IMAGE_PNG, VD_AGENT_CLIPBOARD_IMAGE_BMP}

Advertised(types) == {types[i] : i \in 1..Len(types)}

\* C12: for a grab advertising a non-empty list exactly one request is sent,
\* on the bound main channel: for text if the list has text anywhere, else
\* for an image type of the list if it has one, else for the first type; a
\* null or empty list, or no bound main channel, sends none.
C12_GrabRequestsPreferredType ==
    lastCall.op = "clipboard_grab" =>
        LET types == lastCall.ev.types
            sent == lastCall.emitted
        IN IF lastCall.arg_null \/ types = <<>> \/ lastCall.channel = 0
           THEN sent = <<>>
           ELSE /\ Len(sent) = 1
                /\ sent[1].op = "clipboard_request"
                /\ sent[1].ch = stream.main_channel
                /\ sent[1].selection = lastCall.ev.selection
                /\ IF VD_AGENT_CLIPBOARD_UTF8_TEXT \in Advertised(types)
                   THEN sent[1].type = VD_AGENT_CLIPBOARD_UTF8_TEXT
                   ELSE IF \E t \in Advertised(types) : IsImageType(t)
                   THEN sent[1].type \in Advertised(types) /\ IsImageType(sent[1].type)
                   ELSE sent[1].type = types[1]
\* ---- the host's clipboard push (SpecClipSend)

\* the protocol type the spec gives for a format of the enumeration
SpecTypeOf(format) ==
    CASE format \in {WINRUN_CLIPBOARD_FORMAT_TEXT, WINRUN_CLIPBOARD_FORMAT_RTF,
                     WINRUN_CLIPBOARD_FORMAT_HTML, WINRUN_CLIPBOARD_FORMAT_FILE_URL}
           -> VD_AGENT_CLIPBOARD_UTF8_TEXT
      [] format = WINRUN_CLIPBOARD_FORMAT_PNG -> VD_AGENT_CLIPBOARD_IMAGE_PNG
      [] format = WINRUN_CLIPBOARD_FORMAT_TIFF -> VD_AGENT_CLIPBOARD_IMAGE_BMP

SentClipboard ==
    /\ lastCall.op = "clipboard"
    /\ lastCall.ret = "true"
    /\ lastCall.ev.format \in
         WINRUN_CLIPBOARD_FORMAT_TEXT .. WINRUN_CLIPBOARD_FORMAT_FILE_URL

\* C13: a successful send_clipboard emits exactly a grab advertising one
\* type and then a notify with the data bytes and that same type, both on the
\* bound main channel; the type is the fixed mapping of the format; the
\* clipboard sequence counter is not changed by send_clipboard.
C13_GrabThenNotify ==
    /\ [](SentClipboard =>
            LET sent == lastCall.emitted
                ty == SpecTypeOf(lastCall.ev.format)
            IN /\ Len(sent) = 2
               /\ sent[1] = [op |-> "clipboard_grab", ch |-> stream.main_channel,
                             selection |-> VD_AGENT_CLIPBOARD_SELECTION_CLIPBOARD,
                             types |-> <<ty>>]
               /\ sent[2] = [op |-> "clipboard_notify", ch |-> stream.main_channel,
                             selection |-> VD_AGENT_CLIPBOARD_SELECTION_CLIPBOARD,
                             type |-> ty, data |-> lastCall.ev.data,
                             size |-> lastCall.ev.data_length])
    /\ [][(\E t \in Callers : pc[t] \in {"idle", "clip_lock", "clip_cs"} /\ pc'[t] # pc[t])
            => stream'.clipboard_sequence = stream.clipboard_sequence]_vars

\* a TIFF sent as the bitmap type after two guest deliveries
C13_Witness ==
    /\ SentClipboard
    /\ lastCall.ev.format = WINRUN_CLIPBOARD_FORMAT_TIFF
    /\ lastCall.emitted[2].type = VD_AGENT_CLIPBOARD_IMAGE_BMP
    /\ stream.clipboard_sequence = 2
\* ---- drag and drop (SpecDrag)

\* a drag call that passed the null checks with the main channel bound
DragHandled(c) ==
    /\ c.op = "drag"
    /\ ~c.stream_null
    /\ ~c.arg_null
    /\ c.channel # 0

IsDrop(ev) ==
    ev.event_type = WINRUN_DRAG_EVENT_DROP /\ ~ev.files_null /\ Len(ev.files) > 0

DragCompletes == \E t \in Callers : pc[t] = "drag_cs" /\ pc'[t] = "idle"

\* C14: a DROP whose N listed files all resolve makes exactly one file-copy
\* submission, on the bound main channel, carrying N distinct source
\* handles; ENTER, MOVE and LEAVE, and a DROP with an empty (or null) list,
\* emit nothing and create no transfer context or file handle.
C14_DropSubmitsOnce ==
    /\ [](DragHandled(lastCall) =>
            LET ev == lastCall.ev
                sent == lastCall.emitted
            IN IF IsDrop(ev)
               THEN (\A i \in 1..Len(ev.files) : ev.files[i] = "ok") =>
                       /\ lastCall.ret = "true"
                       /\ Len(sent) = 1
                       /\ sent[1].op = "file_copy_async"
                       /\ sent[1].ch = lastCall.channel
                       /\ Len(sent[1].sources) = Len(ev.files)
                       /\ \A i, j \in 1..Len(ev.files) :
                             sent[1].sources[i] = sent[1].sources[j] => i = j
               ELSE lastCall.ret = "true" /\ sent = <<>>)
    /\ [][(DragCompletes /\ DragHandled(lastCall') /\ ~IsDrop(lastCall'.ev))
            => (transfers' = transfers /\ gfiles' = gfiles)]_vars

\* a DROP of MaxFiles files submitted, its copy in flight
C14_Witness ==
    /\ DragHandled(lastCall)
    /\ IsDrop(lastCall.ev)
    /\ Len(lastCall.ev.files) = MaxFiles
    /\ Len(lastCall.emitted) = 1
    /\ Len(transfers) = 1
    /\ Cardinality(gfiles.handles) = MaxFiles

\* C15: a DROP in which the file at position k has no host path or fails to
\* resolve returns false and submits nothing; the handles stored before
\* position k are each released, the context is freed: no file handle and no
\* context is left of the call, and the copies in flight are not touched.
C15_FailedDropReleasesAll ==
    /\ [](DragHandled(lastCall) /\ IsDrop(lastCall.ev)
              /\ FirstBad(lastCall.ev.files) # 0 =>
            LET k == FirstBad(lastCall.ev.files)
                sources == ResolvedSources(lastCall.ev.files)
            IN /\ lastCall.ret = "false"
               /\ lastCall.emitted = <<>>
               /\ {i \in 1..Len(sources) : sources[i]} = 1..(k - 1)
               /\ ReleasedEntries(sources) = 1..(k - 1))
    /\ [][(DragCompletes /\ DragHandled(lastCall') /\ IsDrop(lastCall'.ev)
             /\ FirstBad(lastCall'.ev.files) # 0)
            => (transfers' = transfers /\ gfiles' = gfiles)]_vars
    /\ [](gfiles.contexts = {transfers[i].id : i \in 1..Len(transfers)})
    /\ [](gfiles.handles =
            UNION {Handles(transfers[i].id, 1..Len(transfers[i].sources)) :
                     i \in 1..Len(transfers)})

\* two files resolved, the third failing, while another copy is in flight
C15_Witness ==
    /\ DragHandled(lastCall)
    /\ lastCall.ev.files = <<"ok", "ok", "fail">>
    /\ lastCall.ret = "false"
    /\ Len(transfers) = 1
    /\ Cardinality(gfiles.handles) = 1
\* the contexts of the copies in flight, and the file handles they hold
InFlightContexts == {transfers[i].id : i \in 1..Len(transfers)}

InFlightHandles ==
    UNION {Handles(transfers[i].id, DOMAIN transfers[i].sources) :
             i \in 1..Len(transfers)}

\* a step of file_copy_complete_cb for the i-th copy in flight
CompletionOf(i) ==
    /\ i \in 1..Len(transfers)
    /\ Len(transfers') = Len(transfers) - 1
    /\ InFlightContexts' = InFlightContexts \ {transfers[i].id}

\* C16: from its submission to its completion a Drag Transfer Context and each
\* of its file handles stay alive and are the only ones alive, whatever the
\* listener (rebinding the main channel) and close do in between; contexts
\* and handles change only in the critical section of a drag call and in the
\* completion callback; the callback releases the context and every one of
\* its handles, each of them alive until then, and nothing is left once the
\* last copy has completed.
C16_ContextReleasedOnceByCompletion ==
    /\ [](/\ gfiles.contexts = InFlightContexts
          /\ gfiles.handles = InFlightHandles
          /\ Cardinality(InFlightContexts) = Len(transfers))
    /\ [][/\ (gfiles' # gfiles \/ transfers' # transfers) =>
                \/ DragCompletes
                \/ \E i \in 1..Len(transfers) : CompletionOf(i)
          /\ \A i \in 1..Len(transfers) :
                CompletionOf(i) /\ ~DragCompletes =>
                   LET ctx == transfers[i]
                       own == Handles(ctx.id, DOMAIN ctx.sources)
                   IN /\ ctx.id \in gfiles.contexts
                      /\ own \subseteq gfiles.handles
                      /\ gfiles'.contexts = gfiles.contexts \ {ctx.id}
                      /\ gfiles'.handles = gfiles.handles \ own]_vars

\* a copy of two files is still in flight, its context and both handles
\* alive, after the listener has bound another main channel and close has
\* freed the Stream
C16_Witness ==
    /\ mem = "freed"
    /\ pc[App] = "closed"
    /\ Len(transfers) = 1
    /\ Len(transfers[1].sources) = 2
    /\ stream.main_channel # transfers[1].channel
    /\ gfiles.contexts = {transfers[1].id}
    /\ Cardinality(gfiles.handles) = 2
\* open has returned the null handle
OpenFailed == pc[App] \in {"open_failed", "closed_null"}

OpenErrors ==
    {"Allocation failure", "Unable to create Spice session",
     "Failed to open Spice session with shared-memory descriptor",
     "Failed to spawn Spice worker thread", "Invalid shared-memory descriptor"}

\* C17: once an open has failed, the error buffer holds one of open's
\* messages, no signal handler is connected, no reference to the session or
\* to a channel is held, no Stream is allocated, no worker thread exists and
\* no metadata, frame or closed notification has been made.
C17_FailedOpenLeavesNothing ==
    OpenFailed =>
       /\ errmsg \in OpenErrors
       /\ handlers = {}
       /\ \A o \in DOMAIN refs : refs[o] = 0
       /\ mem # "live"
       /\ wpc = "none"
       /\ notes = <<>>
\* open over the shared transport was called with a negative descriptor
NegativeFdOpen ==
    /\ arg[App].sig = "open"
    /\ arg[App].transport = "shared"
    /\ arg[App].shared_fd < 0

\* C18: an open over the shared transport with a negative descriptor returns
\* the null handle with the invalid-descriptor message, and then and ever
\* after no Stream has been allocated, no mutex initialised, no session or
\* listener created, no reference taken, no worker started and no
\* notification made.
C18_NegativeDescriptorRejected ==
    NegativeFdOpen =>
       /\ OpenFailed
       /\ errmsg = "Invalid shared-memory descriptor"
       /\ mem = "none"
       /\ stream = NoStream
       /\ send_mutex.st = "uninit"
       /\ ~connecting
       /\ handlers = {}
       /\ next_id = 1
       /\ \A o \in DOMAIN refs : refs[o] = 0
       /\ wpc = "none"
       /\ notes = <<>>

\* open over the shared transport with descriptor -1 has returned null
C18_Witness ==
    /\ NegativeFdOpen
    /\ arg[App].shared_fd = -1
    /\ pc[App] = "open_failed"
    /\ errmsg = "Invalid shared-memory descriptor"
\* ---- keyboard events (SpecKey)

\* the last completed call is a keyboard event that found the inputs channel bound
KeySent ==
    /\ lastCall.op = "keyboard"
    /\ ~lastCall.stream_null
    /\ ~lastCall.arg_null
    /\ lastCall.channel # 0

\* the event's scan code, or its virtual key code when the scan code is 0
BaseCode(ev) == IF ev.scan_code # 0 THEN ev.scan_code ELSE ev.key_code

HasBit8(c) == (c \div 256) % 2 = 1

WithBit8(c) == IF HasBit8(c) THEN c ELSE c + 256

\* the one primitive a DOWN or UP event is to emit, carrying code c
KeyEmission(ev, c) ==
    IF ev.event_type = WINRUN_KEY_EVENT_DOWN
    THEN <<KeyPress(lastCall.channel, c)>>
    ELSE <<KeyRelease(lastCall.channel, c)>>

IsDownUp(ev) == ev.event_type \in {WINRUN_KEY_EVENT_DOWN, WINRUN_KEY_EVENT_UP}

\* C19 as stated: the code transmitted has bit 8 set exactly when the event
\* is marked extended.
C19_Bit8ExactlyWhenExtended ==
    KeySent /\ IsDownUp(lastCall.ev) =>
       /\ Len(lastCall.emitted) = 1
       /\ HasBit8(lastCall.emitted[1].scancode) <=> lastCall.ev.is_extended_key

\* C19: a DOWN event emits exactly one key-press and an UP event exactly one
\* key-release on the bound inputs channel and returns true; the code is the
\* scan code if non-zero and otherwise the virtual key code, with bit 8 set
\* when the event is marked extended and unchanged when it is not; any other
\* event type returns false and emits nothing.
C19_KeyCodeTransmitted ==
    KeySent =>
       LET ev == lastCall.ev
       IN IF IsDownUp(ev)
          THEN /\ lastCall.ret = "true"
               /\ lastCall.emitted =
                    KeyEmission(ev, IF ev.is_extended_key
                                    THEN WithBit8(BaseCode(ev))
                                    ELSE BaseCode(ev))
          ELSE /\ lastCall.ret = "false"
               /\ lastCall.emitted = <<>>

\* an extended UP event with no scan code and key code 0x141 was sent: one
\* key-release carrying 0x141
C19_Witness ==
    /\ KeySent
    /\ lastCall.ev.event_type = WINRUN_KEY_EVENT_UP
    /\ lastCall.ev.scan_code = 0
    /\ lastCall.ev.key_code = 321
    /\ lastCall.ev.is_extended_key
    /\ lastCall.emitted = <<KeyRelease(1, 321)>>
\* ---- the order of a mouse event's emissions (SpecInput)

\* the spice button number of a button of the event enum, 0 for any other
SpiceButtonOf(b) ==
    CASE b = WINRUN_MOUSE_BUTTON_LEFT -> 1
      [] b = WINRUN_MOUSE_BUTTON_MIDDLE -> 2
      [] b = WINRUN_MOUSE_BUTTON_RIGHT -> 3
      [] b = WINRUN_MOUSE_BUTTON_EXTRA1 -> 4
      [] b = WINRUN_MOUSE_BUTTON_EXTRA2 -> 5
      [] OTHER -> 0

\* the integer part of a coordinate held in halves
IntegerPart(v) == IF v >= 0 THEN v \div 2 ELSE -((-v) \div 2)

\* a step that ends the critical section of a mouse event
MouseCompletes(t) == pc[t] = "mouse_cs" /\ pc'[t] = "idle"

\* C20: with m the tracked mask when the event is handled and the inputs
\* channel bound, a PRESS of button b emits a position update at (x, y) and
\* then a button-press for b, both carrying m with b's bit set, which is the
\* tracked mask afterwards; a RELEASE emits a position update and then a
\* button-release for b, both carrying m (which has b's bit whenever b is
\* held), and the tracked mask afterwards is m without b's bit; a MOVE emits
\* one position update carrying m and leaves the mask alone.
C20_PositionThenButton ==
    [][\A t \in Callers :
         MouseCompletes(t) /\ ChannelBound(stream.inputs_channel) =>
            LET ev == lastCall'.ev
                ch == stream.inputs_channel
                m == stream.button_state
                x == IntegerPart(ev.x)
                y == IntegerPart(ev.y)
                b == SpiceButtonOf(ev.button)
                bit == MaskBit(ev.button)
                set == BitOr(m, bit)
            IN /\ ev.event_type = WINRUN_MOUSE_EVENT_PRESS =>
                    /\ lastCall'.emitted = <<Position(ch, x, y, set),
                                             ButtonPress(ch, b, set)>>
                    /\ BitAnd(set, bit) = bit
                    /\ stream'.button_state = set
               /\ ev.event_type = WINRUN_MOUSE_EVENT_RELEASE =>
                    /\ lastCall'.emitted = <<Position(ch, x, y, m),
                                             ButtonRelease(ch, b, m)>>
                    /\ ev.button \in held => BitAnd(m, bit) = bit
                    /\ stream'.button_state = m - BitAnd(m, bit)
               /\ ev.event_type = WINRUN_MOUSE_EVENT_MOVE =>
                    /\ lastCall'.emitted = <<Position(ch, x, y, m)>>
                    /\ stream'.button_state = m]_vars

\* LEFT was released at (1.5, -2.5) while LEFT and RIGHT were held: the
\* position update at (1, -2) and the button-release carry mask 5, and the
\* tracked mask is 4 afterwards
C20_Witness ==
    /\ lastCall.op = "mouse"
    /\ lastCall.ev.event_type = WINRUN_MOUSE_EVENT_RELEASE
    /\ lastCall.ev.button = WINRUN_MOUSE_BUTTON_LEFT
    /\ lastCall.emitted = <<Position(1, 1, -2, 5), ButtonRelease(1, 1, 5)>>
    /\ stream.button_state = 4
    /\ \A t \in Callers : pc[t] = "idle"
\* ---- the clipboard sequence counter (SpecClip)

\* the dispatch threads between on_clipboard_data's unlock and its return
PastIncrement == {d \in Dispatch : pc[d] = "cd_call"}

\* a step of on_clipboard_data's critical section on thread d
Increments(d) == pc[d] = "cd_cs" /\ pc'[d] = "cd_call"

\* a guest-data signal that on_clipboard_data rejects at its first test
RejectedArrival == ndata' = ndata + 1 /\ pc' = pc

\* C21: the clipboard sequence counter equals the number of guest-data
\* arrivals with non-null data and non-zero length that have passed the
\* critical section, with or without a callback registered; the numbers they
\* took are 1, 2, ... without repeats; the counter changes only in that
\* critical section, by exactly 1; a rejected arrival changes neither the
\* Stream nor the log of callback calls.
C21_SequenceCountsAcceptedArrivals ==
    /\ [](stream.clipboard_sequence = Len(delivered) + Cardinality(PastIncrement))
    /\ []({delivered[i].sequence_number : i \in 1..Len(delivered)}
            \cup {snap[d].seq : d \in PastIncrement}
          = 1..stream.clipboard_sequence)
    /\ [][/\ stream'.clipboard_sequence >= stream.clipboard_sequence
          /\ stream'.clipboard_sequence # stream.clipboard_sequence =>
                \E d \in Dispatch : Increments(d)
          /\ \A d \in Dispatch :
                Increments(d) =>
                   /\ stream'.clipboard_sequence = stream.clipboard_sequence + 1
                   /\ snap'[d].seq = stream'.clipboard_sequence
                   /\ snap'[d].cb = stream.clipboard_cb
          /\ RejectedArrival => stream' = stream /\ delivered' = delivered]_vars

\* two arrivals took the numbers 1 and 2, the first with no callback
\* registered and the second with one, and a third arrival was rejected
C21_Witness ==
    /\ stream.clipboard_sequence = 2
    /\ ndata = 3
    /\ \A d \in Dispatch : pc[d] = "idle"
    /\ Len(delivered) = 2
    /\ delivered[1].cb = 0 /\ delivered[1].sequence_number = 1
    /\ delivered[2].cb # 0 /\ delivered[2].sequence_number = 2
\* ---- callbacks and the mutex (SpecReenter)

LockPcs == {"chn_lock", "cd_lock", "cg_lock", "mouse_lock", "key_lock",
            "clip_lock", "req_lock", "drag_lock", "setcb_lock"}

CriticalPcs == {"chn_cs", "cd_cs", "cg_cs", "mouse_cs", "key_cs", "clip_cs",
                "req_cs", "drag_cs", "setcb_cs"}

\* t waits in pthread_mutex_lock for another thread to unlock
BlockedOnMutex(t) == pc[t] \in LockPcs /\ send_mutex.owner # Nobody

\* a call made from inside the callback has returned to it
CallbackCallReturns == pc[CallbackFrame] \in CriticalPcs /\ pc'[CallbackFrame] = "idle"

\* C22: a thread that is executing the clipboard callback does not hold the
\* mutex, nor does the frame of a call it has made unless that call is in its
\* critical section; the mutex is held only by a thread inside a critical
\* section, which never waits, so a thread blocked on the mutex is never
\* blocked by itself, by a thread executing a callback or by another blocked
\* thread; a call made from the callback gets the mutex and returns into the
\* callback; the worker's metadata, frame and closed notifications are made
\* in steps that neither take nor release the mutex.
C22_NoMutexAcrossCallback ==
    /\ [](\A d \in Dispatch : pc[d] = "cd_call" => send_mutex.owner # d)
    /\ [](send_mutex.owner # Nobody => pc[send_mutex.owner] \in CriticalPcs)
    /\ [](\A t \in Threads : BlockedOnMutex(t) =>
             /\ send_mutex.owner # t
             /\ ~BlockedOnMutex(send_mutex.owner))
    /\ [](pc[CallbackFrame] # "idle" => CallbackRunning("d1"))
    /\ [][CallbackCallReturns =>
             /\ CallbackRunning("d1")
             /\ send_mutex.owner = CallbackFrame
             /\ send_mutex'.owner = Nobody]_vars
    /\ [][notes' # notes => send_mutex' = send_mutex]_vars

\* the callback, executing on d1 with sequence number 1, has called
\* request_clipboard (which no other thread calls here), and the call has
\* emitted its request and returned
C22_Witness ==
    /\ pc["d1"] = "cd_call"
    /\ snap["d1"].cb # 0
    /\ snap["d1"].seq = 1
    /\ pc[CallbackFrame] = "idle"
    /\ lastCall.op = "request_clipboard"
    /\ ~lastCall.stream_null
    /\ Len(lastCall.emitted) = 1
    /\ Len(notes) > 0
\* ---- the clipboard signal handlers (Spec)

\* the connections the Stream's four handler ids name on channel ch
StoredConnections(ch) ==
    {[obj |-> ch, sig |-> "grab", id |-> stream.clipboard_grab_handler_id],
     [obj |-> ch, sig |-> "data", id |-> stream.clipboard_data_handler_id],
     [obj |-> ch, sig |-> "request", id |-> stream.clipboard_request_handler_id],
     [obj |-> ch, sig |-> "release", id |-> stream.clipboard_release_handler_id]}

\* the Stream exists and its teardown has not yet disconnected the handlers
BeforeDisconnect ==
    pc[App] \in {"o_connect", "o_worker", "o_openfd", "opened", "c_join", "f_destroy",
                 "f_disconnect"}

\* C23: while the Stream is in use the connected clipboard handlers are
\* exactly the four connections named by the stored ids on the main channel
\* bound at present (none while no main channel is bound), each signal once,
\* and none on any other channel; once close has returned no handler of the
\* Stream, clipboard handler or channel-discovery listener, is connected.
C23_HandlersOnCurrentMainOnly ==
    /\ BeforeDisconnect =>
         {h \in handlers : h.sig \in ClipboardSignals} =
            IF stream.main_channel = 0 THEN {}
            ELSE StoredConnections(stream.main_channel)
    /\ BeforeDisconnect /\ stream.main_channel # 0 =>
         Cardinality(ClipboardIds(stream)) = 4
    /\ pc[App] = "closed" => handlers = {}
\* ---- the listener is armed before the session connects (Spec)

\* the channel-discovery listener as open registered it
Listener ==
    [obj |-> SessionObj, sig |-> "channel-new", id |-> stream.channel_new_handler_id]

\* open has started the connection and no teardown has begun
ConnectedAndInUse == pc[App] \in {"o_worker", "o_openfd", "opened", "c_join"}

\* on_channel_new's critical section on d
Binds(d) == pc[d] = "chn_cs" /\ pc'[d] = "idle"

\* C24: until open has registered the listener the session is not connecting
\* and no channel has been announced; from the start of the connection to
\* the start of a teardown the mutex is initialised and the listener is
\* connected, also before open has returned and before the worker exists;
\* and the listener's critical section stores the announced channel in its
\* slot, with a reference taken.
C24_ListenerArmedBeforeConnect ==
    /\ [](pc[App] \in {"start", "o_session", "o_connect"} =>
             ~connecting /\ announced = 0)
    /\ [](connecting /\ ConnectedAndInUse =>
             /\ send_mutex.st = "init"
             /\ stream.channel_new_handler_id # 0
             /\ Listener \in handlers)
    /\ [][\A d \in Dispatch :
            Binds(d) /\ ConnectedAndInUse =>
               LET ch == arg[d].channel
               IN /\ ch \in {stream'.inputs_channel, stream'.main_channel}
                  /\ refs'[ch] = 1]_vars

\* over the shared transport, main channel 3 was announced and bound while
\* spice_session_open_fd had not yet returned and no worker existed
C24_Witness ==
    /\ pc[App] = "o_openfd"
    /\ arg[App].transport = "shared"
    /\ wpc = "none"
    /\ stream.main_channel = 3
    /\ refs[3] = 1
    /\ \A d \in Dispatch : pc[d] = "idle"
\* ---- the error writer (SpecError)

Min(a, b) == IF a < b THEN a ELSE b

\* a step that is a call of winrun_write_error
WritesError == lastCall'.op = "write_error"

\* C25: a call with a buffer of L > 0 bytes and a message of n characters
\* leaves the first min(n, L-1) characters of the message at the start of the
\* buffer, a terminator after them and every later byte as it was, having
\* written min(n, L-1) + 1 <= L bytes (for L = 1 the terminator alone); a call
\* with a null buffer, with L = 0 or with a null message writes nothing.
C25_ErrorWriterTruncates ==
    [][WritesError =>
         LET L == lastCall'.ev.length
             msg == lastCall'.ev.message
             n == Len(msg.chars)
             k == Min(n, L - 1)
         IN IF errmsg.null \/ L = 0 \/ msg.null
            THEN /\ errmsg' = errmsg
                 /\ lastCall'.emitted = <<0>>
            ELSE /\ Len(errmsg'.bytes) = L
                 /\ \A i \in 1..k : errmsg'.bytes[i] = msg.chars[i]
                 /\ errmsg'.bytes[k + 1] = 0
                 /\ \A i \in (k + 2)..L : errmsg'.bytes[i] = errmsg.bytes[i]
                 /\ lastCall'.emitted = <<k + 1>>
                 /\ k + 1 <= L]_vars

\* a message of four characters was written into a buffer of three bytes: two
\* characters and the terminator
C25_Witness ==
    /\ lastCall.op = "write_error"
    /\ ~lastCall.arg_null
    /\ Len(lastCall.ev.message.chars) = 4
    /\ ~errmsg.null
    /\ Len(errmsg.bytes) = 3
    /\ errmsg.bytes = <<lastCall.ev.message.chars[1], lastCall.ev.message.chars[2], 0>>
\* ---- the worker's footprint (Spec)

\* a step of the worker thread
WorkerSteps == wpc # "none" /\ wpc' # wpc

\* what a worker step does, given its position, the notifications made so
\* far, the run-flag and the window id and callbacks open was given
WorkerEffect(at, made, running, window_id, metadata_cb, frame_cb, closed_cb) ==
    CASE at = "w_meta" ->
           <<"w_check",
             IF metadata_cb
             THEN Append(made, [kind |-> "metadata", window_id |-> window_id,
                                width |-> 800, height |-> 600, scale_factor |-> 1])
             ELSE made>>
      [] at = "w_check" -> <<IF running THEN "w_frame" ELSE "w_closed", made>>
      [] at = "w_frame" ->
           <<"w_check", IF frame_cb THEN Append(made, [kind |-> "frame"]) ELSE made>>
      [] at = "w_closed" ->
           <<"done",
             IF closed_cb
             THEN Append(made, [kind |-> "closed", reason |-> 0,
                                message |-> "Stream closed"])
             ELSE made>>

\* C26: a step of the worker changes nothing but the worker's position and
\* the notifications made: the Stream's fields (channel bindings, clipboard
\* callback and user-data, button mask, sequence counter, run-flag), the
\* mutex, the references and the connected handlers stay as they are; and
\* what the step does is determined by the run-flag together with the window
\* id and the three callbacks fixed at open, whatever the other fields hold.
C26_WorkerTouchesNothing ==
    [][WorkerSteps =>
         /\ stream' = stream
         /\ send_mutex' = send_mutex
         /\ refs' = refs
         /\ handlers' = handlers
         /\ pc' = pc
         /\ <<delivered', lastCall', mem'>> = <<delivered, lastCall, mem>>
         /\ <<wpc', notes'>> =
              WorkerEffect(wpc, notes, stream.worker_running, stream.window_id,
                           stream.metadata_cb, stream.frame_cb, stream.closed_cb)]_vars

\* the worker has made a frame notification and gone on to its closed
\* notification while both channels were bound and close waited for it
C26_Witness ==
    /\ wpc = "done"
    /\ pc[App] = "c_join"
    /\ stream.inputs_channel # 0
    /\ stream.main_channel # 0
    /\ \E i \in 1..Len(notes) : notes[i].kind = "frame"
    /\ notes[Len(notes)].kind = "closed"
\* ---- one call's emissions under concurrent senders (SpecWire)

\* the operations of one call are next to each other in wire
Contiguous ==
    \A i, j, k \in 1..Len(wire) :
        (i < j /\ j < k /\ wire[i].call = wire[k].call) => wire[j].call = wire[i].call

\* the mask a mouse call tracks: the Stream's mask when the call, holding the
\* mutex, read its channel, with the pressed button's bit added by a PRESS
MaskOfCall(a) ==
    IF a.ev.event_type = WINRUN_MOUSE_EVENT_PRESS
    THEN IF (a.bs \div MaskBit(a.ev.button)) % 2 = 1
         THEN a.bs ELSE a.bs + MaskBit(a.ev.button)
    ELSE a.bs

\* a library call made by a mouse call carries that call's mask
CarriesCallMask ==
    Len(wire') > Len(wire) =>
        LET w == wire'[Len(wire')]
            a == arg[w.call[1]]
        IN a.op = "mouse" => w.e.mask = MaskOfCall(a)

\* C27: with several caller threads in send operations on one Stream at once,
\* the protocol operations of one call (position and button press/release of
\* a PRESS or RELEASE, the press/release pairs of a SCROLL, the grab and
\* notify of a send_clipboard) are contiguous in the order of emission, no
\* operation of another call between them, and each operation of a mouse
\* call carries the mask tracked at the time of that call.
C27_CallEmissionsContiguous == []Contiguous /\ [][CarriesCallMask]_vars

\* c1 is between the position update and the button press of a PRESS while
\* c2 waits for the mutex with a mouse event of its own, after an earlier
\* call of c2 emitted
C27_Witness ==
    /\ pc["c1"] = "emit"
    /\ arg["c1"].op = "mouse"
    /\ arg["c1"].ev.event_type = WINRUN_MOUSE_EVENT_PRESS
    /\ arg["c1"].k = 2
    /\ pc["c2"] = "mouse_lock"
    /\ \E i \in 1..Len(wire) : wire[i].call[1] = "c2"
    /\ wire[Len(wire)].call = arg["c1"].call

\* ---- emissions and the bound channel (SpecRebind)

MouseOperations == {"position", "button_press", "button_release"}

\* the channel bound in the Stream for an operation of this kind
BoundFor(e) ==
    IF e.op \in MouseOperations THEN stream.inputs_channel ELSE stream.main_channel

\* C28: every protocol operation a send, a request or the guest-grab handler
\* emits is issued on the channel bound in the Stream at the moment of the
\* emission, a channel whose reference the Stream holds, whatever the
\* interleaving of the listener's rebinding with the calls.
C28_EmittedOnBoundChannel ==
    [][Len(wire') > Len(wire) =>
         LET e == wire'[Len(wire')].e
         IN /\ e.ch # 0
            /\ e.ch = BoundFor(e)
            /\ refs[e.ch] >= 1]_vars

\* an operation was issued on a channel the Stream has released since, and
\* a later one on the channel bound in its place, while the listener waits
\* for the mutex a call in progress holds
C28_Witness ==
    /\ \E i, j \in 1..Len(wire) :
         /\ i < j
         /\ refs[wire[i].e.ch] = 0
         /\ wire[j].e.ch = BoundFor(wire[j].e)
         /\ wire[i].e.op \in MouseOperations <=> wire[j].e.op \in MouseOperations
    /\ \E t \in Callers : pc[t] = "emit"
\* ---- the callback and its user-data (SpecPair)

\* an arrival past its sequence number, or its callback call
Assigned(d) == pc[d] = "cd_call"

\* a function and a user-data of one registration: function i goes with
\* user-data i
SameRegistration(cb, user_data) == user_data = cb

\* the pairs handed to callbacks, and those about to be
HandedOver ==
    {<<delivered[i].cb, delivered[i].user_data>> : i \in 1..Len(delivered)}
    \cup {<<snap[d].cb, snap[d].cb_user_data>> : d \in {x \in Dispatch : Assigned(x)}}

\* the arrival on d takes its sequence number
TakesNumber(d) == pc[d] = "cd_seq" /\ pc'[d] = "cd_call"

\* the arrival on d reaches its callback call
ReachesCall(d) == pc[d] = "cd_call" /\ pc'[d] = "idle"

\* C29: each accepted guest-data arrival invokes at most one clipboard
\* callback; the function invoked and the user-data passed to it are the
\* pair registered when the arrival took its sequence number, both from one
\* set_clipboard_callback call, whatever the interleaving of
\* set_clipboard_callback with the deliveries; and no callback is invoked for
\* an arrival that took its number while none was registered.
C29_CallbackPairFromOneRegistration ==
    /\ [](\A p \in HandedOver : SameRegistration(p[1], p[2]))
    /\ [](\A i, j \in 1..Len(delivered) :
            delivered[i].sequence_number = delivered[j].sequence_number => i = j)
    /\ [][\A d \in Dispatch :
            /\ TakesNumber(d) =>
                 <<snap'[d].cb, snap'[d].cb_user_data>> =
                   <<stream.clipboard_cb, stream.clipboard_user_data>>
            /\ (Assigned(d) /\ ~ReachesCall(d)) => snap'[d] = snap[d]
            /\ ReachesCall(d) =>
                 /\ Len(delivered') = Len(delivered) + 1
                 /\ delivered'[Len(delivered')].cb = snap[d].cb
                 /\ delivered'[Len(delivered')].user_data = snap[d].cb_user_data
                 /\ delivered'[Len(delivered')].sequence_number = snap[d].seq
            /\ ~(\E x \in Dispatch : ReachesCall(x)) => delivered' = delivered]_vars

\* function 1 was invoked with user-data 1 after function 2 had replaced it,
\* while a caller is between its two stores of another registration and an
\* arrival waits for the mutex; an earlier arrival, with no callback
\* registered, invoked none
C29_Witness ==
    /\ \E i, j \in 1..Len(delivered) :
         /\ delivered[i].cb = 0
         /\ delivered[j].cb = 1
         /\ delivered[j].user_data = 1
    /\ \E t \in Callers : pc[t] = "setcb_user_data" /\ stream.clipboard_cb = 2
                          /\ stream.clipboard_user_data = 1
    /\ \E d \in Dispatch : pc[d] = "cd_lock"

=============================================================================
